---- MODULE Spec2Model ----
(***************************************************************************)
(* vimeo.js: the resumable streaming uploader (lib/filestreamer.js) and    *)
(* the upload orchestrator (lib/vimeo.js, callback and Promise versions),  *)
(* modelled as event-driven state machines.  Every action is one handler   *)
(* of the code run to completion, as the single-threaded event loop runs   *)
(* it; the file system and the HTTP transport choose the outcomes.         *)
(***************************************************************************)
EXTENDS Integers, Sequences, FiniteSets, TLC

(***************************************************************************)
(* Bounds of the model.                                                    *)
(***************************************************************************)
\* Largest file size fs.stat reports.
MaxSize == 2
\* Most HTTP exchanges (data PUTs and range checks) one FileStreamer upload issues.
MaxRequests == 3
\* Largest offset N used when the Range parsing is exercised on its own.
MaxOffset == 130

(***************************************************************************)
(* Program constants.                                                      *)
(***************************************************************************)
\* `status === 308` in _getNewStart.
ResumeIncomplete == 308
\* `res.statusCode > 399` in _upload_endpoint_request.
LastSuccessStatus == 399

(***************************************************************************)
(* Strings are sequences of characters, so that formatting and parsing are *)
(* computed and not assumed.  A piece of literal text may stand as one     *)
(* element where the code never looks inside it.                           *)
(***************************************************************************)
DigitChars == <<"0", "1", "2", "3", "4", "5", "6", "7", "8", "9">>

HexChars == <<"0", "1", "2", "3", "4", "5", "6", "7", "8", "9",
              "a", "b", "c", "d", "e", "f">>

UpperHexChars == <<"0", "1", "2", "3", "4", "5", "6", "7", "8", "9",
                   "A", "B", "C", "D", "E", "F">>

\* Number-to-string conversion of `'...' + n` for a non-negative integer.
RECURSIVE NumberToString(_)
NumberToString(n) ==
  IF n < 10
  THEN <<DigitChars[n + 1]>>
  ELSE NumberToString(n \div 10) \o <<DigitChars[(n % 10) + 1]>>

\* A JavaScript number is <<n>>, and NaN is the empty tuple, so that a NaN can
\* flow wherever a number can and every comparison with it is false.
Num(n) == <<n>>

NaN == <<>>

\* undefined, as the text String(undefined) that parseInt and `+` see.
Undefined == <<"undefined">>

\* a >= b on JavaScript numbers.
GreaterOrEqual(a, b) == a # NaN /\ b # NaN /\ a[1] >= b[1]

\* `'...' + x` for a JavaScript number.
Concat(x) == IF x = NaN THEN <<"N", "a", "N">> ELSE NumberToString(x[1])

\* Value of character c as a digit of the given radix, or -1.
DigitValue(c, radix) ==
  LET hits == {d \in 1..radix : HexChars[d] = c \/ UpperHexChars[d] = c}
  IN IF hits = {} THEN -1 ELSE (CHOOSE d \in hits : TRUE) - 1

\* Index of the first character of s at or after i that is not white space.
RECURSIVE SkipWhiteSpace(_, _)
SkipWhiteSpace(s, i) ==
  IF i <= Len(s) /\ s[i] = " " THEN SkipWhiteSpace(s, i + 1) ELSE i

\* Value of the longest run of digits of s starting at i, given the value acc
\* of the digits read so far.
RECURSIVE ParseDigits(_, _, _, _)
ParseDigits(s, i, radix, acc) ==
  IF i <= Len(s) /\ DigitValue(s[i], radix) >= 0
  THEN ParseDigits(s, i + 1, radix, acc * radix + DigitValue(s[i], radix))
  ELSE acc

\* String.prototype.split(sep) for a one-character separator: the pieces of s
\* between the occurrences of sep.
RECURSIVE SplitFrom(_, _, _, _)
SplitFrom(s, sep, i, piece) ==
  IF i > Len(s)
  THEN <<piece>>
  ELSE IF s[i] = sep
       THEN <<piece>> \o SplitFrom(s, sep, i + 1, <<>>)
       ELSE SplitFrom(s, sep, i + 1, Append(piece, s[i]))

split(s, sep) == SplitFrom(s, sep, 1, <<>>)

\* Element i (0-based) of a JavaScript array, undefined past its end.
At(arr, i) == IF i + 1 <= Len(arr) THEN arr[i + 1] ELSE Undefined

\* parseInt(string) with no radix: leading white space is skipped, a sign and
\* a 0x prefix are honoured, the longest prefix of digits is converted and
\* whatever follows is ignored; with no digit the result is NaN.
parseInt(str) ==
  LET i0 == SkipWhiteSpace(str, 1)
      neg == i0 <= Len(str) /\ str[i0] = "-"
      i1 == IF i0 <= Len(str) /\ str[i0] \in {"-", "+"} THEN i0 + 1 ELSE i0
      hex == i1 + 1 <= Len(str) /\ str[i1] = "0" /\ str[i1 + 1] \in {"x", "X"}
      radix == IF hex THEN 16 ELSE 10
      i2 == IF hex THEN i1 + 2 ELSE i1
  IN IF i2 > Len(str) \/ DigitValue(str[i2], radix) < 0
     THEN NaN
     ELSE IF neg
          THEN Num(0 - ParseDigits(str, i2, radix, 0))
          ELSE Num(ParseDigits(str, i2, radix, 0))

(***************************************************************************)
(* Errors.  An error is its constructor's name and its message.            *)
(***************************************************************************)
NoError == [name |-> "none", message |-> <<>>]

Error(message) == [name |-> "Error", message |-> message]

TypeError(message) == [name |-> "TypeError", message |-> message]

\* The errors the collaborators raise.
StatError == Error(<<"ENOENT: no such file or directory, stat">>)
OpenError == Error(<<"EACCES: permission denied, open">>)
CloseError == Error(<<"EIO: i/o error, close">>)
ReadError == Error(<<"EIO: i/o error, read">>)
SocketError == Error(<<"socket hang up">>)

\* Calling a method of `this` in a callback whose `this` is not the streamer.
ThisIsUndefined == TypeError(<<"Cannot read property '_error' of undefined">>)

\* `headers.range.split` on a response that carries no Range header.
RangeIsUndefined == TypeError(<<"Cannot read property 'split' of undefined">>)

(***************************************************************************)
(* FileStreamer (lib/filestreamer.js).  The file holds two versions of the *)
(* streamer, the prototype one and the class one; they differ in the kind  *)
(* of function handed to fs.open and fs.close, which decides what `this`   *)
(* is when the callback runs.                                              *)
(***************************************************************************)
VARIABLES
  variant,        \* "prototype" or "class": the version of the streamer
  fsPending,      \* "idle" before upload(), then the fs callback awaited: "stat", "open", "none"
  _file_size,     \* this._file_size
  _fd,            \* this._fd: <<>> for null, <<fd>> once opened
  openCalls,      \* descriptors fs.open has handed out
  closeCalls,     \* calls of fs.close
  closePending,   \* fs.close callbacks still to run
  reqs,           \* the HTTP exchanges issued, in order
  readyCalls,     \* invocations of the registered ready handler
  errorCalls,     \* invocations of the registered error handler
  errors,         \* the errors handed to the error handler, in order
  uncaught,       \* the exception that left a callback uncaught, or NoError
  progress,       \* arguments of the last progress_callback call, or <<>>
  lastEvent       \* the handler that ran last and what it was given

svars == <<variant, fsPending, _file_size, _fd, openCalls, closeCalls, closePending,
           reqs, readyCalls, errorCalls, errors, uncaught, progress, lastEvent>>

\* The Range parsing on its own: a header 'bytes=0-N' and what is read off it.
VARIABLES
  rangeN,         \* the offset N the server reports
  rangeHeader,    \* the Range header carrying it
  rangeParsed,    \* whether the header has been parsed
  newStart        \* the start offset read off the header

pvars == <<rangeN, rangeHeader, rangeParsed, newStart>>

\* The upload orchestrator: one upload()/replace() invocation, and a second
\* one run beside it where two invocations are compared.
VARIABLES
  call,
  twin

uvars == <<call, twin>>

\* request(): one Vimeo instance, the headers object a caller keeps and
\* passes again, and the request() calls made on the instance.
VARIABLES
  release,        \* "v2" (src/lib/vimeo.js) or "v3" (the Promise API version)
  _clientId,      \* this._clientId
  _clientSecret,  \* this._clientSecret
  _accessToken,   \* this._accessToken
  kept,           \* the headers object the caller keeps between calls
  rq,             \* the calls made, each with what it sent and what it delivered
  request_defaults  \* module.exports.request_defaults

rvars == <<release, _clientId, _clientSecret, _accessToken, kept, rq, request_defaults>>

\* streamingUpload(): the invocation around the streamer.
VARIABLES
  su              \* the ticket request, the DELETEs answered, the calls of the callback

tvars == <<su>>

vars == <<svars, pvars, uvars, rvars, tvars>>

Variants == {"prototype", "class"}

\* Descriptors fs.open returns; 0, 1 and 2 are the process's standard streams.
Fds == {3}

\* Status codes the upload server answers with.
StatusCodes == {200, 201, ResumeIncomplete, LastSuccessStatus + 1}

\* Response bodies of failed requests.
Bodies == {<<"Bad Request">>}

\* A Range header 'bytes=0-N'.
RangeHeader(n) == <<"b", "y", "t", "e", "s", "=", "0", "-">> \o NumberToString(n)

\* The Range headers a 308 response carries: a last byte at, below or past the
\* file size, no number, or no header at all.
RangeHeaders ==
  {RangeHeader(n) : n \in 0..(MaxSize + 1)}
    \cup {<<"b", "y", "t", "e", "s", "=", "0", "-">>, Undefined}

\* Headers of a data PUT starting at `start` (a JavaScript number).
PutHeaders(start) ==
  [ContentLength |-> <<_file_size>>,
   ContentType |-> "video/mp4",
   ContentRange |-> <<"bytes ">> \o Concat(start) \o <<"-">>
                      \o NumberToString(_file_size) \o <<"/">>
                      \o NumberToString(_file_size)]

\* Headers of a range check.
RangeCheckHeaders ==
  [ContentLength |-> <<>>,
   ContentType |-> "application/octet-stream",
   ContentRange |-> <<"bytes */*">>]

\* `start || 0`.
OrZero(start) == IF start = NaN \/ start = Num(0) THEN 0 ELSE start[1]

\* The exchange _putFile opens: a read stream on the path from `start` piped
\* into a PUT request.  out: "open" until the request delivers its outcome;
\* file: the state of the read stream; uploadedSize: the handler's counter.
PutExchange(start) ==
  [kind |-> "put", method |-> "PUT", headers |-> PutHeaders(start),
   start |-> start, readFrom |-> OrZero(start), out |-> "open",
   file |-> "reading", read |-> 0, uploadedSize |-> OrZero(start)]

\* The exchange _getNewStart opens: a PUT with no body, ended at once.
RangeExchange ==
  [kind |-> "range", method |-> "PUT", headers |-> RangeCheckHeaders,
   start |-> NaN, readFrom |-> 0, out |-> "open",
   file |-> "none", read |-> 0, uploadedSize |-> 0]

Event(handler, req, status, start) ==
  [handler |-> handler, req |-> req, status |-> status, start |-> start]

SInit ==
  /\ variant \in Variants
  /\ fsPending = "idle"
  /\ _file_size = 0
  /\ _fd = <<>>
  /\ openCalls = 0
  /\ closeCalls = 0
  /\ closePending = 0
  /\ reqs = <<>>
  /\ readyCalls = 0
  /\ errorCalls = 0
  /\ errors = <<>>
  /\ uncaught = NoError
  /\ progress = <<>>
  /\ lastEvent = Event("constructor", 0, 0, NaN)

\* The process runs until an exception leaves a callback uncaught.
Running == uncaught = NoError

----
\* The pieces the handlers are made of.

\* this._error(error) with an error handler registered by error(fn).
_error(error) ==
  /\ errorCalls' = errorCalls + 1
  /\ errors' = Append(errors, error)

\* this._user_ready() with a ready handler registered by ready(fn).
_user_ready == readyCalls' = readyCalls + 1

\* _closeFile without the test of this._fd.
_closeFile_Unguarded ==
  /\ closeCalls' = closeCalls + 1
  /\ closePending' = closePending + 1
  /\ _fd' = <<>>

\* _closeFile: fs.close is called only while this._fd is set.
_closeFile ==
  IF _fd # <<>>
  THEN /\ closeCalls' = closeCalls + 1
       /\ closePending' = closePending + 1
       /\ _fd' = <<>>
  ELSE UNCHANGED <<closeCalls, closePending, _fd>>

\* `this` inside the callbacks given to fs.open and fs.close: a function
\* expression is called with no receiver, an arrow function keeps the streamer.
ThisInFsCallback == IF variant = "class" THEN "streamer" ELSE "undefined"

\* this._error(err) inside such a callback.
ThisError(err) ==
  IF ThisInFsCallback = "streamer"
  THEN _error(err) /\ UNCHANGED uncaught
  ELSE uncaught' = ThisIsUndefined /\ UNCHANGED <<errorCalls, errors>>

\* What _upload_endpoint_request hands its callback when the response ends.
ResponseArgs(status, headers, buffer) ==
  IF status > LastSuccessStatus
  THEN [err |-> Error(<<"[">> \o buffer \o <<"]">>), code |-> status, headers |-> headers]
  ELSE [err |-> NoError, code |-> status, headers |-> headers]

\* What it hands its callback on the request's 'error' event: the error alone.
RequestErrorArgs(e) == [err |-> e, code |-> 0, headers |-> Undefined]

\* The message of the error _getNewStart builds for an unexpected status.
InvalidStatus(status) ==
  Error(<<"Invalid http status returned from range query: [">>
          \o NumberToString(status) \o <<"]">>)

\* _getNewStart reading the piece before the dash.
NewStart_BeforeDash(headers) == parseInt(At(split(headers, "-"), 0))

\* The start offset _getNewStart reads off a 308 response.
NewStart(headers) == parseInt(At(split(headers, "-"), 1))

\* _getNewStart taking every status below 400 for 308.
GetNewStart_AnySuccess(args) ==
  IF args.err # NoError
  THEN [throws |-> NoError, err |-> args.err, start |-> NaN]
  ELSE IF args.headers = Undefined
       THEN [throws |-> RangeIsUndefined, err |-> NoError, start |-> NaN]
       ELSE [throws |-> NoError, err |-> NoError, start |-> NewStart(args.headers)]

\* What the callback of _getNewStart's request hands to `next`; throws when
\* the 308 response has no Range header.
GetNewStart(args) ==
  IF args.err # NoError
  THEN [throws |-> NoError, err |-> args.err, start |-> NaN]
  ELSE IF args.code = ResumeIncomplete
       THEN IF args.headers = Undefined
            THEN [throws |-> RangeIsUndefined, err |-> NoError, start |-> NaN]
            ELSE [throws |-> NoError, err |-> NoError, start |-> NewStart(args.headers)]
       ELSE [throws |-> NoError, err |-> InvalidStatus(args.code), start |-> NaN]

\* The test of _ready with === in place of >=.
Complete_Equal(start) == start = Num(_file_size)

\* The test of _ready: the server has the whole file.
Complete(start) == GreaterOrEqual(start, Num(_file_size))

\* The exchange `i` of rs marked as having delivered its outcome.
Delivered(rs, i) == [rs EXCEPT ![i].out = "done"]

\* createReadStream(path, {start: NaN}): newer Node versions reject the option.
StartOutOfRange ==
  [name |-> "RangeError", message |-> <<"The value of \"start\" is out of range.">>]

closeVars == <<closeCalls, closePending, _fd>>
errorVars == <<errorCalls, errors>>

\* _ready(): ask the server what it holds; the answer comes back in ReadyCallback.
_ready(rs) ==
  /\ Len(rs) < MaxRequests
  /\ reqs' = Append(rs, RangeExchange)

\* _streamChunk that sends the file from its first byte again.
_streamChunk_FromZero(rs, start) ==
  /\ Len(rs) < MaxRequests
  /\ reqs' = Append(rs, PutExchange(Num(0)))
  /\ UNCHANGED uncaught

\* _streamChunk(start): _putFile opens the read stream and the request at once.
\* A NaN start is rejected by createReadStream or read as "no position",
\* depending on the Node version.
_streamChunk(rs, start) ==
  /\ Len(rs) < MaxRequests
  /\ \/ /\ reqs' = Append(rs, PutExchange(start))
        /\ UNCHANGED uncaught
     \/ /\ start = NaN
        /\ reqs' = rs
        /\ uncaught' = StartOutOfRange

\* The callback exiting on every error: `if (err)` in place of `if (err && code)`.
PutCallback_AnyError(rs, args) ==
  IF args.err # NoError
  THEN /\ _closeFile
       /\ _error(args.err)
       /\ reqs' = rs
       /\ UNCHANGED <<readyCalls, uncaught>>
  ELSE /\ _ready(rs)
       /\ UNCHANGED <<closeVars, errorVars, readyCalls, uncaught>>

\* The callback _streamChunk gives _putFile: (err, code, headers).
PutCallback(rs, args) ==
  IF args.err # NoError /\ args.code # 0
  THEN /\ _closeFile
       /\ _error(args.err)
       /\ reqs' = rs
       /\ UNCHANGED <<readyCalls, uncaught>>
  ELSE /\ _ready(rs)
       /\ UNCHANGED <<closeVars, errorVars, readyCalls, uncaught>>

\* The callback _ready gives _getNewStart: (err, start), after the callback
\* of _getNewStart's own request has turned (err, status, headers) into it.
ReadyCallback(rs, args) ==
  LET next == GetNewStart(args)
  IN IF next.throws # NoError
     THEN /\ uncaught' = next.throws
          /\ reqs' = rs
          /\ UNCHANGED <<closeVars, errorVars, readyCalls>>
     ELSE IF next.err # NoError
          THEN /\ _closeFile
               /\ _error(next.err)
               /\ reqs' = rs
               /\ UNCHANGED <<readyCalls, uncaught>>
          ELSE IF Complete(next.start)
               THEN /\ _closeFile
                    /\ _user_ready
                    /\ reqs' = rs
                    /\ UNCHANGED <<errorVars, uncaught>>
               ELSE /\ _streamChunk(rs, next.start)
                    /\ UNCHANGED <<closeVars, errorVars, readyCalls>>

----
\* The handlers.

\* upload(): fs.stat is called.
Upload ==
  /\ Running
  /\ fsPending = "idle"
  /\ fsPending' = "stat"
  /\ UNCHANGED <<pvars, uvars, rvars, tvars>>
  /\ lastEvent' = Event("upload", 0, 0, NaN)
  /\ UNCHANGED <<variant, _file_size, _fd, openCalls, closeVars, reqs, readyCalls,
                 errorVars, uncaught, progress>>

\* The stat callback with an error.
StatFailed ==
  /\ Running
  /\ fsPending = "stat"
  /\ fsPending' = "none"
  /\ _error(StatError)
  /\ UNCHANGED <<pvars, uvars, rvars, tvars>>
  /\ lastEvent' = Event("statFailed", 0, 0, NaN)
  /\ UNCHANGED <<variant, _file_size, openCalls, closeVars, reqs, readyCalls,
                 uncaught, progress>>

\* The stat callback with the size: fs.open is called.
StatDone(size) ==
  /\ Running
  /\ fsPending = "stat"
  /\ fsPending' = "open"
  /\ _file_size' = size
  /\ UNCHANGED <<pvars, uvars, rvars, tvars>>
  /\ lastEvent' = Event("stat", 0, 0, NaN)
  /\ UNCHANGED <<variant, openCalls, closeVars, reqs, readyCalls, errorVars,
                 uncaught, progress>>

\* The open callback with an error: `this._error(openErr)`.
OpenFailed ==
  /\ Running
  /\ fsPending = "open"
  /\ fsPending' = "none"
  /\ ThisError(OpenError)
  /\ UNCHANGED <<pvars, uvars, rvars, tvars>>
  /\ lastEvent' = Event("openFailed", 0, 0, NaN)
  /\ UNCHANGED <<variant, _file_size, openCalls, closeVars, reqs, readyCalls, progress>>

\* The open callback with a descriptor: the first data PUT starts at 0.
OpenDone(fd) ==
  /\ Running
  /\ fsPending = "open"
  /\ fsPending' = "none"
  /\ _fd' = <<fd>>
  /\ openCalls' = openCalls + 1
  /\ _streamChunk(reqs, Num(0))
  /\ UNCHANGED <<pvars, uvars, rvars, tvars>>
  /\ lastEvent' = Event("open", 0, 0, Num(0))
  /\ UNCHANGED <<variant, _file_size, closeCalls, closePending, readyCalls, errorVars,
                 progress>>

\* Bytes of the file a read stream opened at `from` has yet to deliver.
Unread(x) ==
  IF _file_size > x.readFrom + x.read THEN _file_size - x.readFrom - x.read ELSE 0

\* The 'data' listener counting from 0 whatever the start of the PUT.
FileData_CountsFromZero(i, n) ==
  /\ Running
  /\ reqs[i].kind = "put"
  /\ reqs[i].file = "reading"
  /\ n \in 1..Unread(reqs[i])
  /\ reqs' = [reqs EXCEPT ![i].read = @ + n, ![i].uploadedSize = @ + n]
  /\ progress' = <<reqs[i].read + n, _file_size>>
  /\ UNCHANGED <<pvars, uvars, rvars, tvars>>
  /\ lastEvent' = Event("data", i, 0, reqs[i].start)
  /\ UNCHANGED <<variant, fsPending, _file_size, openCalls, closeVars, readyCalls,
                 errorVars, uncaught>>

\* 'data' of the read stream of exchange i: a chunk of n bytes.
FileData(i, n) ==
  /\ Running
  /\ reqs[i].kind = "put"
  /\ reqs[i].file = "reading"
  /\ n \in 1..Unread(reqs[i])
  /\ reqs' = [reqs EXCEPT ![i].read = @ + n, ![i].uploadedSize = @ + n]
  /\ progress' = <<reqs[i].uploadedSize + n, _file_size>>
  /\ UNCHANGED <<pvars, uvars, rvars, tvars>>
  /\ lastEvent' = Event("data", i, 0, reqs[i].start)
  /\ UNCHANGED <<variant, fsPending, _file_size, openCalls, closeVars, readyCalls,
                 errorVars, uncaught>>

\* 'end' of the read stream of exchange i: pipe ends the request body.
FileEnd(i) ==
  /\ Running
  /\ reqs[i].kind = "put"
  /\ reqs[i].file = "reading"
  /\ Unread(reqs[i]) = 0
  /\ reqs' = [reqs EXCEPT ![i].file = "ended"]
  /\ UNCHANGED <<pvars, uvars, rvars, tvars>>
  /\ lastEvent' = Event("end", i, 0, reqs[i].start)
  /\ UNCHANGED <<variant, fsPending, _file_size, openCalls, closeVars, readyCalls,
                 errorVars, uncaught, progress>>

\* 'error' of the read stream of exchange i: callback(err); the request stays open.
FileError(i) ==
  /\ Running
  /\ reqs[i].kind = "put"
  /\ reqs[i].file = "reading"
  /\ PutCallback([reqs EXCEPT ![i].file = "errored"], RequestErrorArgs(ReadError))
  /\ UNCHANGED <<pvars, uvars, rvars, tvars>>
  /\ lastEvent' = Event("fileError", i, 0, reqs[i].start)
  /\ UNCHANGED <<variant, fsPending, _file_size, openCalls, progress>>

\* The response to data PUT i has ended.
PutResponse(i, status, buffer) ==
  /\ Running
  /\ reqs[i].kind = "put"
  /\ reqs[i].out = "open"
  /\ PutCallback(Delivered(reqs, i), ResponseArgs(status, Undefined, buffer))
  /\ UNCHANGED <<pvars, uvars, rvars, tvars>>
  /\ lastEvent' = Event("putResponse", i, status, reqs[i].start)
  /\ UNCHANGED <<variant, fsPending, _file_size, openCalls, progress>>

\* 'error' of the request of data PUT i.
PutRequestError(i) ==
  /\ Running
  /\ reqs[i].kind = "put"
  /\ reqs[i].out = "open"
  /\ PutCallback(Delivered(reqs, i), RequestErrorArgs(SocketError))
  /\ UNCHANGED <<pvars, uvars, rvars, tvars>>
  /\ lastEvent' = Event("putError", i, 0, reqs[i].start)
  /\ UNCHANGED <<variant, fsPending, _file_size, openCalls, progress>>

\* The response to range check i has ended.
RangeResponse(i, status, headers, buffer) ==
  /\ Running
  /\ reqs[i].kind = "range"
  /\ reqs[i].out = "open"
  /\ ReadyCallback(Delivered(reqs, i), ResponseArgs(status, headers, buffer))
  /\ UNCHANGED <<pvars, uvars, rvars, tvars>>
  /\ lastEvent' = Event("rangeResponse", i, status,
                        GetNewStart(ResponseArgs(status, headers, buffer)).start)
  /\ UNCHANGED <<variant, fsPending, _file_size, openCalls, progress>>

\* 'error' of the request of range check i.
RangeRequestError(i) ==
  /\ Running
  /\ reqs[i].kind = "range"
  /\ reqs[i].out = "open"
  /\ ReadyCallback(Delivered(reqs, i), RequestErrorArgs(SocketError))
  /\ UNCHANGED <<pvars, uvars, rvars, tvars>>
  /\ lastEvent' = Event("rangeError", i, 0, NaN)
  /\ UNCHANGED <<variant, fsPending, _file_size, openCalls, progress>>

\* The callback of fs.close: `if (err) this._error(err)`.
CloseDone(err) ==
  /\ Running
  /\ closePending > 0
  /\ closePending' = closePending - 1
  /\ IF err # NoError
     THEN ThisError(err)
     ELSE UNCHANGED <<errorVars, uncaught>>
  /\ UNCHANGED <<pvars, uvars, rvars, tvars>>
  /\ lastEvent' = Event(IF err = NoError THEN "closed" ELSE "closeFailed", 0, 0, NaN)
  /\ UNCHANGED <<variant, fsPending, _file_size, _fd, openCalls, closeCalls, reqs,
                 readyCalls, progress>>

(***************************************************************************)
(* The upload orchestrator: upload(), replace() and _performTusUpload of   *)
(* lib/vimeo.js ("v2", callbacks only) and of the Promise-API version      *)
(* ("v3").  One invocation is a record; every handler is a function from   *)
(* the invocation's state to its next state.                               *)
(***************************************************************************)
\* JavaScript values, tagged with their typeof.
Fn(name) == [t |-> "function", v |-> <<name>>]
Obj(o) == [t |-> "object", v |-> o]
Str(text) == [t |-> "string", v |-> text]
Number(n) == [t |-> "number", v |-> NumberToString(n)]
Err(e) == [t |-> "error", v |-> e]
Undef == [t |-> "undefined", v |-> <<"undefined">>]
NullValue == [t |-> "null", v |-> <<"null">>]

\* a === b.
Same(a, b) == a.t = b.t /\ a.v = b.v

\* Objects are functions from their keys.
EmptyObject == [k \in {} |-> k]

Put(o, k, v) == [x \in DOMAIN o \cup {k} |-> IF x = k THEN v ELSE o[x]]

\* o[k], undefined when the key is absent.
Get(o, k) == IF k \in DOMAIN o THEN o[k] ELSE Undef

\* String(err) taken to be the message alone.
ErrorToString_MessageOnly(e) == e.message

\* String(err), as `'...' + err` computes it: an Error gives its name and
\* message, a string gives itself.
ErrorToString(e) ==
  IF e.name = "string"
  THEN e.message
  ELSE IF e.message = <<>> THEN <<e.name>> ELSE <<e.name, ": ">> \o e.message

\* err.message: undefined on a string.
MessageOf(e) == IF e.name = "string" THEN Undefined ELSE e.message

\* A string used as an error value.
StringError(text) == [name |-> "string", message |-> text]

\* Index of the last "/" of p at or before i, 0 when there is none.
RECURSIVE LastSlash(_, _)
LastSlash(p, i) ==
  IF i = 0 THEN 0 ELSE IF p[i] = "/" THEN i ELSE LastSlash(p, i - 1)

\* p without its trailing slashes.
RECURSIVE TrimSlashes(_)
TrimSlashes(p) ==
  IF Len(p) > 1 /\ p[Len(p)] = "/" THEN TrimSlashes(SubSeq(p, 1, Len(p) - 1)) ELSE p

\* path.basename(p) on POSIX.
basename(p) ==
  LET q == TrimSlashes(p)
  IN IF q = <<"/">> THEN <<>> ELSE SubSeq(q, LastSlash(q, Len(q)) + 1, Len(q))

----
\* What a caller may pass.

ApiVersions == {"v2", "v3"}

Operations == {"upload", "replace"}

Paths == {<<"/", "v", "/", "a", ".", "m", "p", "4">>, <<"b", ".", "m", "o", "v">>}

\* A file-like object: a size and a name.
Blob == Obj([size |-> Number(MaxSize), name |-> Str(<<"c", ".", "m", "p", "4">>)])

VideoUri == <<"/videos/7">>

\* The params objects a caller supplies.
ParamsChoices ==
  {EmptyObject,
   [name |-> Str(<<"title">>)],
   [name |-> Str(<<"title">>),
    upload |-> Obj([approach |-> Str(<<"post">>), size |-> Number(999),
                    redirect_url |-> Str(<<"https://r">>)])],
   [file_name |-> Str(<<"mine.mp4">>), upload |-> Obj(EmptyObject)],
   [upload |-> NullValue]}

\* The argument lists after the file (and the video URI): with and without
\* params, with three callbacks, and in the Promise version with one or none.
Arguments(p, a, b, c) ==
  [params |-> p, completeCallback |-> a, progressCallback |-> b, errorCallback |-> c]

ArgumentLists(version) ==
  {Arguments(Obj(p), Fn("cb1"), Fn("cb2"), Fn("cb3")) : p \in ParamsChoices}
    \cup {Arguments(Fn("cb1"), Fn("cb2"), Fn("cb3"), Undef)}
    \cup (IF version = "v3"
          THEN {Arguments(Obj(p), Fn("cb1"), Undef, Undef) : p \in ParamsChoices}
                 \cup {Arguments(Obj(p), Undef, Undef, Undef) : p \in ParamsChoices}
                 \cup {Arguments(Fn("cb1"), Undef, Undef, Undef)}
          ELSE {})

\* What fs.statSync finds at a path: <<>> when it throws, else <<size>>.
StatResults == {<<>>} \cup {<<n>> : n \in 0..MaxSize}

\* One invocation before it runs.
NewCall(version, op, file, stat, args) ==
  [version |-> version, op |-> op, file |-> file, stat |-> stat, args |-> args,
   videoUri |-> VideoUri,
   phase |-> "idle",
   params |-> Undef, completeCallback |-> Undef, progressCallback |-> Undef,
   errorCallback |-> Undef, isPromise |-> FALSE, fileSize |-> Undef,
   statCalls |-> 0,
   requests |-> <<>>, reqOut |-> "none", outcome |-> "none", err |-> NoError,
   response |-> Undef,
   performCalls |-> <<>>, tus |-> <<>>, tusState |-> "none", progressEvents |-> 0,
   emitted |-> <<>>,
   log |-> <<>>,
   promise |-> "none", settled |-> Undef,
   thrown |-> NoError]

\* No invocation.
NoCall ==
  [NewCall("v2", "upload", Undef, <<>>, Arguments(Undef, Undef, Undef, Undef))
     EXCEPT !.phase = "none"]

----
\* The texts of the orchestrator's own errors.
UnableToLocate == <<"Unable to locate file to upload.">>

InvalidFilePath == <<"Please pass in a valid file path.">>

UnableToInitiate(text) == <<"Unable to initiate an upload. [">> \o text \o <<"]">>

FirstErrorStatus == 400

\* An exception leaves the running handler.
Throw(c, e) == [c EXCEPT !.thrown = e, !.phase = "crashed"]

\* resolve(x) or reject(x) of the promise upload()/replace() returned: only
\* the first settles it.
Settle(c, how, x) ==
  IF c.promise = "pending" THEN [c EXCEPT !.promise = how, !.settled = x] ELSE c

\* f(x1, ..., xn): the caller's callbacks are recorded in the log, resolve
\* and reject settle the promise, anything else is not callable.
CallFunction(c, role, f, xs) ==
  IF f.t # "function"
  THEN Throw(c, TypeError(<<role, " is not a function">>))
  ELSE IF f.v = <<"resolve">> THEN Settle(c, "resolved", xs[1])
  ELSE IF f.v = <<"reject">> THEN Settle(c, "rejected", xs[1])
  ELSE [c EXCEPT !.log = Append(@, [fn |-> f.v[1], args |-> xs])]

\* `throw e` in place of the rejected promise.
RejectedPromise_Throws(c, e) == Throw(c, e)

\* `return new Promise((resolve, reject) => reject(e))`
RejectedPromise(c, e) ==
  [c EXCEPT !.promise = "rejected", !.settled = Err(e), !.phase = "returned"]

\* The shift that forgets `errorCallback = progressCallback`.
ShiftArguments_DropsError(a) ==
  IF a.params.t = "function"
  THEN Arguments(Obj(EmptyObject), a.params, a.completeCallback, a.errorCallback)
  ELSE a

\* if (typeof params === 'function') { ... params = {} }
ShiftArguments(a) ==
  IF a.params.t = "function"
  THEN Arguments(Obj(EmptyObject), a.params, a.completeCallback, a.progressCallback)
  ELSE a

\* const isPromise = progressCallback === undefined && errorCallback === undefined
IsPromise(version, a) ==
  version = "v3" /\ a.progressCallback.t = "undefined" /\ a.errorCallback.t = "undefined"

\* The options of the negotiation request.
Options(c) ==
  [path |-> IF c.op = "upload"
            THEN <<"/me/videos?fields=uri,name,upload">>
            ELSE c.videoUri \o <<"/versions?fields=upload">>,
   method |-> <<"POST">>,
   query |-> c.params]

\* this.request(options, callback) or this.request(options): the request is
\* handed to the HTTP client; in promise style upload() returns the promise.
SendRequest(c) ==
  [c EXCEPT !.requests = Append(@, [options |-> Options(c), callback |-> ~c.isPromise]),
            !.reqOut = "open",
            !.promise = IF c.isPromise THEN "pending" ELSE @,
            !.phase = "negotiating"]

\* The negotiation that keeps an upload object the caller supplied.
ForceUpload_KeepsCaller(c) ==
  LET upload == Get(c.params.v, "upload")
  IN IF upload.t = "undefined"
     THEN SendRequest([c EXCEPT !.params =
            Obj(Put(c.params.v, "upload",
                    Obj([approach |-> Str(<<"tus">>), size |-> c.fileSize])))])
     ELSE IF upload.t = "object"
     THEN SendRequest(c)
     ELSE Throw(c, TypeError(<<"Cannot set properties of null (setting 'approach')">>))

\* Ignore any specified upload approach and size.
ForceUpload(c) ==
  LET upload == Get(c.params.v, "upload")
      forced(o) == Put(Put(o, "approach", Str(<<"tus">>)), "size", c.fileSize)
  IN IF upload.t = "undefined"
     THEN SendRequest([c EXCEPT !.params = Obj(Put(c.params.v, "upload", Obj(forced(EmptyObject))))])
     ELSE IF upload.t = "object"
     THEN SendRequest([c EXCEPT !.params = Obj(Put(c.params.v, "upload", Obj(forced(upload.v))))])
     ELSE Throw(c, TypeError(<<"Cannot set properties of null (setting 'approach')">>))

\* replace() announcing the path as it was given.
SetFileName_FullPath(c) ==
  IF c.op # "replace"
  THEN c
  ELSE [c EXCEPT !.params =
          Obj(Put(c.params.v, "file_name",
                  IF c.file.t = "string" THEN Str(c.file.v) ELSE Get(c.file.v, "name")))]

\* replace(): params.file_name = path.basename(file), or file.name.
SetFileName(c) ==
  IF c.op # "replace"
  THEN c
  ELSE [c EXCEPT !.params =
          Obj(Put(c.params.v, "file_name",
                  IF c.file.t = "string" THEN Str(basename(c.file.v)) ELSE Get(c.file.v, "name")))]

\* upload()/replace() going on after fs.statSync has thrown.
ResolveSize_IgnoresStat(c) ==
  IF c.file.t = "string"
  THEN ForceUpload(SetFileName([c EXCEPT !.statCalls = @ + 1,
                                         !.fileSize = IF c.stat = <<>> THEN Undef
                                                      ELSE Number(c.stat[1])]))
  ELSE ForceUpload(SetFileName([c EXCEPT !.fileSize = Get(c.file.v, "size")]))

\* The size of the file: fs.statSync for a path, file.size for an object
\* (an error in the Promise version).
ResolveSize(c) ==
  IF c.file.t = "string"
  THEN LET c2 == [c EXCEPT !.statCalls = @ + 1]
       IN IF c.stat = <<>>
          THEN IF c.isPromise
               THEN RejectedPromise(c2, StatError)
               ELSE [CallFunction(c2, "errorCallback", c.errorCallback, <<Str(UnableToLocate)>>)
                       EXCEPT !.phase = IF @ = "crashed" THEN @ ELSE "returned"]
          ELSE ForceUpload(SetFileName([c2 EXCEPT !.fileSize = Number(c.stat[1])]))
  ELSE IF c.version = "v2"
  THEN ForceUpload(SetFileName([c EXCEPT !.fileSize = Get(c.file.v, "size")]))
  ELSE IF c.isPromise
  THEN RejectedPromise(c, Error(InvalidFilePath))
  ELSE [CallFunction(c, "errorCallback", c.errorCallback, <<Err(Error(InvalidFilePath))>>)
          EXCEPT !.phase = IF @ = "crashed" THEN @ ELSE "returned"]

\* upload()/replace() without `progressCallback = completeCallback`.
Invoke_KeepsProgress(c) ==
  IF c.phase # "idle"
  THEN c
  ELSE LET a == ShiftArguments(c.args)
       IN ResolveSize([c EXCEPT !.params = a.params,
                                !.completeCallback = a.completeCallback,
                                !.progressCallback = a.progressCallback,
                                !.errorCallback = a.errorCallback,
                                !.isPromise = IsPromise(c.version, a)])

\* The synchronous body of upload() and replace().
Invoke(c) ==
  IF c.phase # "idle"
  THEN c
  ELSE LET a == ShiftArguments(c.args)
           isPromise == IsPromise(c.version, a)
       IN ResolveSize([c EXCEPT !.params = a.params,
                                !.completeCallback = a.completeCallback,
                                !.progressCallback =
                                   IF isPromise THEN a.completeCallback ELSE a.progressCallback,
                                !.errorCallback = a.errorCallback,
                                !.isPromise = isPromise])

\* The bodies a response to the negotiation request may carry: the text,
\* whether JSON.parse accepts it, and the value it parses to.
Attempt ==
  Obj([uri |-> Str(<<"/videos/9">>),
       upload |-> Obj([upload_link |-> Str(<<"https://u/1">>)])])

\* Another session, and one the API answers without a uri.
OtherAttempt ==
  Obj([uri |-> Str(<<"/videos/10">>),
       upload |-> Obj([upload_link |-> Str(<<"https://u/2">>)])])

AttemptWithoutUri == Obj([upload |-> Obj([upload_link |-> Str(<<"https://u/3">>)])])

ResponseBodies ==
  {[text |-> <<"{uri,upload}">>, valid |-> TRUE, value |-> Attempt],
   [text |-> <<"{uri:10,upload}">>, valid |-> TRUE, value |-> OtherAttempt],
   [text |-> <<"{upload}">>, valid |-> TRUE, value |-> AttemptWithoutUri],
   [text |-> <<"{}">>, valid |-> TRUE, value |-> Obj(EmptyObject)],
   [text |-> <<"<html>">>, valid |-> FALSE, value |-> Undef],
   [text |-> <<>>, valid |-> FALSE, value |-> Undef]}

NegotiationStatuses == {200, FirstErrorStatus}

SyntaxError == [name |-> "SyntaxError", message |-> <<"Unexpected token < in JSON at position 0">>]

UploadLinkOfUndefined ==
  TypeError(<<"Cannot read properties of undefined (reading 'upload_link')">>)

MaxProgress == 2

\* fs.createReadStream(path)
ReadStream(path) == [t |-> "stream", v |-> path]

\* _performTusUpload opening a read stream on whatever it is given.
FileUpload_AlwaysOpens(file) == ReadStream(file.v)

\* var fileUpload = file; if (typeof file === 'string') fileUpload = fs.createReadStream(file)
FileUpload(file) == IF file.t = "string" THEN ReadStream(file.v) ELSE file

\* _performTusUpload: a tus.Upload over the file with the callbacks as its
\* event handlers, given the upload link of the attempt, and started.
PerformTusUpload(c, attempt, completeCallback, progressCallback, errorCallback) ==
  LET upload == Get(attempt.v, "upload")
      made(url, started) ==
        [file |-> FileUpload(c.file), uploadSize |-> c.fileSize, url |-> url,
         onError |-> errorCallback, onProgress |-> progressCallback,
         onSuccess |-> completeCallback, uri |-> Get(attempt.v, "uri"),
         started |-> started]
      c1 == [c EXCEPT !.performCalls =
               Append(@, [file |-> c.file, fileSize |-> c.fileSize, attempt |-> attempt,
                          completeCallback |-> completeCallback,
                          progressCallback |-> progressCallback,
                          errorCallback |-> errorCallback])]
  IN IF upload.t = "object"
     THEN [c1 EXCEPT !.tus = Append(@, made(Get(upload.v, "upload_link"), TRUE)),
                     !.tusState = "running",
                     !.phase = "transferring"]
     ELSE IF c.version = "v2"
     THEN Throw([c1 EXCEPT !.tus = Append(@, made(Undef, FALSE))], UploadLinkOfUndefined)
     ELSE Throw(c1, UploadLinkOfUndefined)

\* replace(): attempt.uri = videoUri
WithUri(c, attempt) ==
  IF c.op = "replace" THEN Obj(Put(attempt.v, "uri", Str(c.videoUri))) ELSE attempt

\* The callback going on to the transfer after it reported the error.
RequestCallback_TransfersAfterError(c, err, attempt) ==
  LET c1 == IF err # NoError
            THEN CallFunction(c, "errorCallback", c.errorCallback,
                              <<Str(UnableToInitiate(ErrorToString(err)))>>)
            ELSE c
  IN PerformTusUpload(c1, WithUri(c, Attempt),
                      c.completeCallback, c.progressCallback, c.errorCallback)

\* The callback upload()/replace() pass to request(): function (err, attempt).
RequestCallback(c, err, attempt) ==
  IF err # NoError
  THEN [CallFunction(c, "errorCallback", c.errorCallback,
                     <<Str(UnableToInitiate(ErrorToString(err)))>>)
          EXCEPT !.phase = IF @ = "crashed" THEN @ ELSE "failed"]
  ELSE PerformTusUpload(c, WithUri(c, attempt),
                        c.completeCallback, c.progressCallback, c.errorCallback)

\* .catch(err => reject(new Error('Unable to initiate an upload. [' + err.message + ']')))
PromiseCatch(c, err) ==
  [Settle(c, "rejected", Err(Error(UnableToInitiate(MessageOf(err)))))
     EXCEPT !.thrown = NoError, !.phase = "failed"]

\* .then(attempt => _performTusUpload(..., attempt.body, resolve, progressCallback, reject))
\* with the .catch behind it.
PromiseThen(c, attempt) ==
  LET c1 == PerformTusUpload(c, WithUri(c, attempt),
                             Fn("resolve"), c.progressCallback, Fn("reject"))
  IN IF c1.thrown # NoError THEN PromiseCatch(c1, c1.thrown) ELSE c1

\* What the callback of request() is given, or how its promise settles.
Deliver(c, err, attempt) ==
  IF c.isPromise
  THEN IF err # NoError THEN PromiseCatch(c, err) ELSE PromiseThen(c, attempt)
  ELSE LET c1 == RequestCallback(c, err, attempt)
       IN IF c.version = "v3" /\ err = NoError /\ c1.thrown # NoError
          THEN RequestCallback([c1 EXCEPT !.thrown = NoError, !.phase = c.phase],
                               c1.thrown, Undef)
          ELSE c1

\* req.on('error', function (e) { callback(e) })
OnRequestError(c, e) ==
  IF c.reqOut # "open"
  THEN c
  ELSE Deliver([c EXCEPT !.reqOut = "done", !.outcome = "error", !.err = e], e, Undef)

\* The 'end' listener _handleRequest puts on the response.
OnResponseEnd(c, status, body) ==
  IF c.reqOut # "open"
  THEN c
  ELSE IF status >= FirstErrorStatus
  THEN Deliver([c EXCEPT !.reqOut = "done", !.outcome = "status", !.err = Error(body.text)],
               Error(body.text), Undef)
  ELSE IF body.text = <<>>
  THEN Deliver([c EXCEPT !.reqOut = "done", !.outcome = "ok", !.response = Obj(EmptyObject)],
               NoError, Obj(EmptyObject))
  ELSE IF body.valid
  THEN Deliver([c EXCEPT !.reqOut = "done", !.outcome = "ok", !.response = body.value],
               NoError, body.value)
  ELSE LET e == IF c.version = "v2" THEN StringError(body.text) ELSE SyntaxError
       IN Deliver([c EXCEPT !.reqOut = "done", !.outcome = "json", !.err = e], e, Undef)

\* onProgress(bytesUploaded, bytesTotal), when a function was given.
OnTusProgress(c, sent) ==
  IF c.tusState # "running" \/ c.progressEvents >= MaxProgress
  THEN c
  ELSE LET u == c.tus[Len(c.tus)]
           c1 == [c EXCEPT !.progressEvents = @ + 1,
                           !.emitted = Append(@, <<Number(sent), u.uploadSize>>)]
       IN IF u.onProgress.t = "function"
          THEN CallFunction(c1, "onProgress", u.onProgress, <<Number(sent), u.uploadSize>>)
          ELSE c1

\* What the tus client may hand its onSuccess handler.
TusPayloads == {Undef, Str(<<"tus-result">>)}

\* onSuccess reporting what the tus client handed it.
OnTusSuccess_ReportsPayload(c, payload) ==
  IF c.tusState # "running"
  THEN c
  ELSE LET u == c.tus[Len(c.tus)]
       IN [CallFunction([c EXCEPT !.tusState = "succeeded"], "completeCallback",
                        u.onSuccess, <<payload>>)
             EXCEPT !.phase = IF @ = "crashed" THEN @ ELSE "completed"]

\* onSuccess: completeCallback(attempt.uri), whatever the tus client hands it.
OnTusSuccess(c, payload) ==
  IF c.tusState # "running"
  THEN c
  ELSE LET u == c.tus[Len(c.tus)]
       IN [CallFunction([c EXCEPT !.tusState = "succeeded"], "completeCallback",
                        u.onSuccess, <<u.uri>>)
             EXCEPT !.phase = IF @ = "crashed" THEN @ ELSE "completed"]

\* onError: errorCallback(error)
OnTusError(c, e) ==
  IF c.tusState # "running"
  THEN c
  ELSE LET u == c.tus[Len(c.tus)]
       IN [CallFunction([c EXCEPT !.tusState = "failed"], "onError", u.onError, <<Err(e)>>)
             EXCEPT !.phase = IF @ = "crashed" THEN @ ELSE "failed"]

SNext ==
  \/ Upload
  \/ StatFailed
  \/ \E size \in 0..MaxSize : StatDone(size)
  \/ OpenFailed
  \/ \E fd \in Fds : OpenDone(fd)
  \/ \E i \in 1..Len(reqs) :
       \/ \E n \in 1..MaxSize : FileData(i, n)
       \/ FileEnd(i)
       \/ FileError(i)
       \/ \E status \in StatusCodes :
            PutResponse(i, status, IF status > LastSuccessStatus
                                   THEN CHOOSE b \in Bodies : TRUE ELSE <<>>)
       \/ PutRequestError(i)
       \/ \E status \in StatusCodes :
            \E headers \in (IF status = ResumeIncomplete THEN RangeHeaders ELSE {Undefined}) :
              RangeResponse(i, status, headers,
                            IF status > LastSuccessStatus
                            THEN CHOOSE b \in Bodies : TRUE ELSE <<>>)
       \/ RangeRequestError(i)
  \/ CloseDone(NoError)
  \/ CloseDone(CloseError)

----
\* The streamer with the other components at rest.
PIdle == rangeN = 0 /\ rangeHeader = <<>> /\ rangeParsed = FALSE /\ newStart = NaN

UIdle == call = NoCall /\ twin = NoCall

\* module.exports.request_defaults
RequestDefaults ==
  [hostname |-> <<"api.vimeo.com">>,
   method |-> <<"GET">>,
   headers |-> ("Accept" :> Str(<<"application/vnd.vimeo.*+json;version=3.4">>))
                 @@ ("User-Agent" :> Str(<<"Vimeo.js/2.1.1">>))]

RIdle ==
  /\ release = "v2"
  /\ _clientId = NullValue
  /\ _clientSecret = NullValue
  /\ _accessToken = NullValue
  /\ kept = EmptyObject
  /\ rq = <<>>
  /\ request_defaults = RequestDefaults

\* No streamingUpload() under way.
NoStreamingUpload == [phase |-> "none", answered |-> {}, log |-> <<>>]

TIdle == su = NoStreamingUpload

Init == SInit /\ PIdle /\ UIdle /\ RIdle /\ TIdle

Next == SNext

Spec == Init /\ [][Next]_vars

----
(***************************************************************************)
(* The streamer over unboundedly many exchanges.  An exchange that has     *)
(* delivered its outcome and whose read stream is over can call nothing    *)
(* any more and is dropped from reqs, so that MaxRequests bounds the       *)
(* exchanges alive at one time and not those of the whole run.  The read   *)
(* streams do not fail here.  Every operation that is outstanding gets its *)
(* outcome: that is the fairness.                                          *)
(***************************************************************************)
Settled(rs) == SelectSeq(rs, LAMBDA x : ~(x.out = "done" /\ x.file # "reading"))

\* The response to data PUT i has ended.
LivePutResponse(i, status, buffer) ==
  /\ Running
  /\ reqs[i].kind = "put"
  /\ reqs[i].out = "open"
  /\ PutCallback(Settled(Delivered(reqs, i)), ResponseArgs(status, Undefined, buffer))
  /\ UNCHANGED <<pvars, uvars, rvars, tvars>>
  /\ lastEvent' = Event("putResponse", i, status, reqs[i].start)
  /\ UNCHANGED <<variant, fsPending, _file_size, openCalls, progress>>

\* 'error' of the request of data PUT i.
LivePutRequestError(i) ==
  /\ Running
  /\ reqs[i].kind = "put"
  /\ reqs[i].out = "open"
  /\ PutCallback(Settled(Delivered(reqs, i)), RequestErrorArgs(SocketError))
  /\ UNCHANGED <<pvars, uvars, rvars, tvars>>
  /\ lastEvent' = Event("putError", i, 0, reqs[i].start)
  /\ UNCHANGED <<variant, fsPending, _file_size, openCalls, progress>>

\* The response to range check i has ended.
LiveRangeResponse(i, status, headers, buffer) ==
  /\ Running
  /\ reqs[i].kind = "range"
  /\ reqs[i].out = "open"
  /\ ReadyCallback(Settled(Delivered(reqs, i)), ResponseArgs(status, headers, buffer))
  /\ UNCHANGED <<pvars, uvars, rvars, tvars>>
  /\ lastEvent' = Event("rangeResponse", i, status,
                        GetNewStart(ResponseArgs(status, headers, buffer)).start)
  /\ UNCHANGED <<variant, fsPending, _file_size, openCalls, progress>>

\* 'error' of the request of range check i.
LiveRangeRequestError(i) ==
  /\ Running
  /\ reqs[i].kind = "range"
  /\ reqs[i].out = "open"
  /\ ReadyCallback(Settled(Delivered(reqs, i)), RequestErrorArgs(SocketError))
  /\ UNCHANGED <<pvars, uvars, rvars, tvars>>
  /\ lastEvent' = Event("rangeError", i, 0, NaN)
  /\ UNCHANGED <<variant, fsPending, _file_size, openCalls, progress>>

StatOutcome == StatFailed \/ \E size \in 0..MaxSize : StatDone(size)

OpenOutcome == OpenFailed \/ \E fd \in Fds : OpenDone(fd)

ReadOutcome ==
  \E i \in 1..MaxRequests :
    /\ i <= Len(reqs)
    /\ FileEnd(i) \/ \E n \in 1..MaxSize : FileData(i, n)

HttpOutcome ==
  \E i \in 1..MaxRequests :
    /\ i <= Len(reqs)
    /\ \/ LivePutRequestError(i)
       \/ LiveRangeRequestError(i)
       \/ \E status \in StatusCodes, buffer \in Bodies : LivePutResponse(i, status, buffer)
       \/ \E status \in StatusCodes, headers \in RangeHeaders, buffer \in Bodies :
            LiveRangeResponse(i, status, headers, buffer)

CloseOutcome == \E err \in {NoError, CloseError} : CloseDone(err)

NextLive == Upload \/ StatOutcome \/ OpenOutcome \/ ReadOutcome \/ HttpOutcome \/ CloseOutcome

Fairness ==
  /\ WF_vars(Upload)
  /\ WF_vars(StatOutcome)
  /\ WF_vars(OpenOutcome)
  /\ WF_vars(ReadOutcome)
  /\ WF_vars(HttpOutcome)
  /\ WF_vars(CloseOutcome)

SpecLive == Init /\ [][NextLive]_vars /\ Fairness

----
(***************************************************************************)
(* _getNewStart on a 308 response whose Range header is 'bytes=0-N'.       *)
(***************************************************************************)
PInit ==
  /\ rangeN \in 0..MaxOffset
  /\ rangeHeader = RangeHeader(rangeN)
  /\ rangeParsed = FALSE
  /\ newStart = NaN

\* The range check's response arrives and _getNewStart hands on the offset.
RangeParsed ==
  /\ ~rangeParsed
  /\ LET r == GetNewStart(ResponseArgs(ResumeIncomplete, rangeHeader, <<>>))
     IN /\ r.throws = NoError
        /\ r.err = NoError
        /\ newStart' = r.start
  /\ rangeParsed' = TRUE
  /\ UNCHANGED <<rangeN, rangeHeader, svars, uvars, rvars, tvars>>

InitParse == SInit /\ PInit /\ UIdle /\ RIdle /\ TIdle

NextParse == RangeParsed

SpecParse == InitParse /\ [][NextParse]_vars

----
(***************************************************************************)
(* One invocation of upload() or replace().  The invocation without the    *)
(* params argument has a twin: the same invocation with {} in its place,   *)
(* which is given the same events.                                         *)
(***************************************************************************)
Files == {Str(p) : p \in Paths} \cup {Blob}

WithEmptyParams(a) ==
  Arguments(Obj(EmptyObject), a.params, a.completeCallback, a.progressCallback)

UInit ==
  \E version \in ApiVersions, op \in Operations, file \in Files, stat \in StatResults :
   \E args \in ArgumentLists(version) :
    /\ file.t # "string" => stat = <<>>
    /\ call = NewCall(version, op, file, stat, args)
    /\ twin = IF args.params.t = "function" /\ args.progressCallback.t = "function"
              THEN NewCall(version, op, file, stat, WithEmptyParams(args))
              ELSE NoCall

\* upload(file, ...)
CallUpload ==
  /\ call.phase = "idle"
  /\ call.op = "upload"
  /\ call' = Invoke(call)
  /\ twin' = Invoke(twin)
  /\ UNCHANGED <<svars, pvars, rvars, tvars>>

\* replace(file, videoUri, ...)
CallReplace ==
  /\ call.phase = "idle"
  /\ call.op = "replace"
  /\ call' = Invoke(call)
  /\ twin' = Invoke(twin)
  /\ UNCHANGED <<svars, pvars, rvars, tvars>>

\* The negotiation request fails on the wire.
NegotiationError(e) ==
  /\ call.reqOut = "open"
  /\ call' = OnRequestError(call, e)
  /\ twin' = OnRequestError(twin, e)
  /\ UNCHANGED <<svars, pvars, rvars, tvars>>

\* The response to the negotiation request ends.
NegotiationResponse(status, body) ==
  /\ call.reqOut = "open"
  /\ call' = OnResponseEnd(call, status, body)
  /\ twin' = OnResponseEnd(twin, status, body)
  /\ UNCHANGED <<svars, pvars, rvars, tvars>>

\* The tus client reports progress.
TusProgress(sent) ==
  /\ call.tusState = "running"
  /\ call.progressEvents < MaxProgress
  /\ call' = OnTusProgress(call, sent)
  /\ twin' = OnTusProgress(twin, sent)
  /\ UNCHANGED <<svars, pvars, rvars, tvars>>

\* The tus client finishes the transfer.
TusSuccess(payload) ==
  /\ call.tusState = "running"
  /\ call' = OnTusSuccess(call, payload)
  /\ twin' = OnTusSuccess(twin, payload)
  /\ UNCHANGED <<svars, pvars, rvars, tvars>>

\* The tus client gives up.
TusError(e) ==
  /\ call.tusState = "running"
  /\ call' = OnTusError(call, e)
  /\ twin' = OnTusError(twin, e)
  /\ UNCHANGED <<svars, pvars, rvars, tvars>>

InitUpload == SInit /\ PIdle /\ UInit /\ RIdle /\ TIdle

NextUpload ==
  \/ CallUpload
  \/ CallReplace
  \/ NegotiationError(SocketError)
  \/ \E status \in NegotiationStatuses, body \in ResponseBodies :
       NegotiationResponse(status, body)
  \/ \E sent \in 0..MaxSize : TusProgress(sent)
  \/ \E payload \in TusPayloads : TusSuccess(payload)
  \/ TusError(SocketError)

SpecUpload == InitUpload /\ [][NextUpload]_vars

----
(***************************************************************************)
(* request(): the options are turned into the options of the HTTP client,  *)
(* the request is sent, and its outcome is handed to the callback or       *)
(* settles the promise.  Texts that are measured or encoded are sequences  *)
(* of characters; "e-acute" stands for the character U+00E9.               *)
(***************************************************************************)
\* Bytes of a character in UTF-8.
Utf8Width(ch) == IF ch = "e-acute" THEN 2 ELSE 1

\* Buffer.byteLength(text, 'utf8')
RECURSIVE ByteLength(_)
ByteLength(text) ==
  IF text = <<>> THEN 0 ELSE Utf8Width(Head(text)) + ByteLength(Tail(text))

\* querystring.escape
RECURSIVE Escape(_)
Escape(text) ==
  IF text = <<>>
  THEN <<>>
  ELSE (IF Head(text) = "e-acute" THEN <<"%", "C", "3", "%", "A", "9">>
        ELSE IF Head(text) = " " THEN <<"%", "2", "0">>
        ELSE <<Head(text)>>) \o Escape(Tail(text))

Quote(text) == <<"\"">> \o text \o <<"\"">>

\* The members of a query, as JSON.stringify or as querystring.stringify
\* writes them.
RECURSIVE StringifyPairs(_, _)
StringifyPairs(pairs, json) ==
  IF pairs = <<>>
  THEN <<>>
  ELSE (IF json
        THEN Quote(pairs[1][1]) \o <<":">> \o Quote(pairs[1][2])
        ELSE Escape(pairs[1][1]) \o <<"=">> \o Escape(pairs[1][2]))
         \o (IF Len(pairs) = 1 THEN <<>> ELSE IF json THEN <<",">> ELSE <<"&">>)
         \o StringifyPairs(Tail(pairs), json)

\* JSON.stringify(query): undefined of undefined.
JSONStringify(query) ==
  IF query.t = "undefined"
  THEN Undef
  ELSE Str(<<"{">> \o StringifyPairs(query.v, TRUE) \o <<"}">>)

\* qsModule.stringify(query): '' of undefined.
QsStringify(query) ==
  IF query.t = "undefined" THEN Str(<<>>) ELSE Str(StringifyPairs(query.v, FALSE))

Base64Chars ==
  <<"A", "B", "C", "D", "E", "F", "G", "H", "I", "J", "K", "L", "M", "N", "O", "P",
    "Q", "R", "S", "T", "U", "V", "W", "X", "Y", "Z", "a", "b", "c", "d", "e", "f",
    "g", "h", "i", "j", "k", "l", "m", "n", "o", "p", "q", "r", "s", "t", "u", "v",
    "w", "x", "y", "z", "0", "1", "2", "3", "4", "5", "6", "7", "8", "9", "+", "/">>

\* The byte of a character of the credentials.
CharCode(ch) ==
  CASE ch = ":" -> 58
    [] ch = "c" -> 99
    [] ch = "d" -> 100
    [] ch = "e" -> 101
    [] ch = "i" -> 105
    [] ch = "r" -> 114
    [] ch = "s" -> 115
    [] ch = "t" -> 116

\* Buffer.from(text).toString('base64'), three bytes at a time.
RECURSIVE Base64(_)
Base64(text) ==
  IF text = <<>>
  THEN <<>>
  ELSE LET n == Len(text)
           bits == CharCode(text[1]) * 65536
                     + (IF n >= 2 THEN CharCode(text[2]) * 256 ELSE 0)
                     + (IF n >= 3 THEN CharCode(text[3]) ELSE 0)
           sextet(k) == Base64Chars[((bits \div k) % 64) + 1]
       IN <<sextet(262144), sextet(4096),
            IF n >= 2 THEN sextet(64) ELSE "=",
            IF n >= 3 THEN sextet(1) ELSE "=">>
            \o (IF n > 3 THEN Base64(SubSeq(text, 4, n)) ELSE <<>>)

\* if (x)
Truthy(x) ==
  CASE x.t \in {"undefined", "null"} -> FALSE
    [] x.t = "string" -> x.v # <<>>
    [] OTHER -> TRUE

BodyMethods == {<<"POST">>, <<"PATCH">>, <<"PUT">>, <<"DELETE">>}

ApplicationJson == Str(<<"application/json">>)

FormUrlEncoded == Str(<<"application/x-www-form-urlencoded">>)

TextPlain == Str(<<"text/plain">>)

\* The options of a call: headers are left out ("none"), an object made for
\* the call ("own") or the object the caller keeps ("kept").
RequestOptions(method, path, query, ref, headers, body) ==
  [method |-> method, path |-> path, query |-> query,
   headers |-> [ref |-> ref, v |-> headers], body |-> body]

\* options.headers || {}: the object itself, not a copy.
GivenHeaders(options) ==
  IF options.headers.ref = "none" THEN EmptyObject
  ELSE IF options.headers.ref = "kept" THEN kept
  ELSE options.headers.v

\* if (!requestOptions.headers[key]) requestOptions.headers[key] = the default
DefaultHeader(headers, key) ==
  IF Truthy(Get(headers, key))
  THEN headers
  ELSE Put(headers, key, request_defaults.headers[key])

\* _applyDefaultRequestOptions
ApplyDefaultRequestOptions(options) ==
  [host |-> request_defaults.hostname,
   method |-> IF Truthy(options.method) THEN options.method.v ELSE request_defaults.method,
   headers |-> DefaultHeader(DefaultHeader(GivenHeaders(options), "Accept"), "User-Agent"),
   body |-> Str(<<>>),
   path |-> options.path.v]

\* _applyQuerystringParams
ApplyQuerystringParams(path, query) ==
  IF ~Truthy(query) \/ query.v = <<>>
  THEN path
  ELSE path \o (IF \E i \in 1..Len(path) : path[i] = "?" THEN <<"&">> ELSE <<"?">>)
            \o QsStringify(query).v

\* The Authorization put on the headers: the token first, then the client
\* credentials, else none.
Authorize(headers) ==
  IF Truthy(_accessToken)
  THEN Put(headers, "Authorization", Str(<<"Bearer ">> \o _accessToken.v))
  ELSE IF Truthy(_clientId) /\ Truthy(_clientSecret)
  THEN Put(headers, "Authorization",
           Str(<<"Basic ">> \o Base64(_clientId.v \o <<":">> \o _clientSecret.v)))
  ELSE headers

\* _buildRequestOptions
BuildRequestOptions(options) ==
  LET requestOptions == ApplyDefaultRequestOptions(options)
      headers == Authorize(requestOptions.headers)
  IN IF requestOptions.method \in BodyMethods /\ ~Truthy(Get(headers, "Content-Type"))
     THEN [requestOptions EXCEPT !.headers = Put(headers, "Content-Type", ApplicationJson)]
     ELSE IF requestOptions.method = <<"GET">>
     THEN [requestOptions EXCEPT !.headers = headers,
                                 !.path = ApplyQuerystringParams(@, options.query)]
     ELSE [requestOptions EXCEPT !.headers = headers]

\* The body that is form-encoded whatever the Content-Type.
RequestBody_AlwaysForm(requestOptions, options) == QsStringify(options.query)

\* The body of a POST, PATCH, PUT or DELETE: src/lib/vimeo.js knows JSON and
\* the form encoding, the Promise API version also options.body.
RequestBody(requestOptions, options) ==
  LET contentType == Get(requestOptions.headers, "Content-Type")
  IN IF contentType = ApplicationJson
     THEN JSONStringify(options.query)
     ELSE IF release = "v2" \/ contentType = FormUrlEncoded
     THEN QsStringify(options.query)
     ELSE options.body

\* The body and the Content-Length of the request.
WithBody(requestOptions, options) ==
  IF requestOptions.method \notin BodyMethods
  THEN requestOptions
  ELSE LET body == RequestBody(requestOptions, options)
       IN [requestOptions EXCEPT
             !.body = body,
             !.headers = Put(@, "Content-Length",
                             IF Truthy(body) THEN Number(ByteLength(body.v)) ELSE Number(0))]

\* if (options.path.charAt(0) !== '/') options.path = '/' + options.path
WithLeadingSlash(path) ==
  IF path # <<>> /\ path[1] = "/" THEN path ELSE <<"/">> \o path

\* What the HTTP client is given by a call with a path.
ClientOptions(options) ==
  LET o == [options EXCEPT !.path = Str(WithLeadingSlash(@.v))]
  IN WithBody(BuildRequestOptions(o), o)

MustProvidePath == <<"You must provide an API path.">>

CallbackIsNotAFunction == TypeError(<<"callback is not a function">>)

\* What a callback that throws, throws.
CallbackError == Error(<<"thrown by the callback">>)

\* The callbacks a caller may pass: none, one that returns, one that throws.
Callbacks == {"none", "returns", "throws"}

\* The i-th argument of a call, undefined when it was not passed.
Argument(args, i) == IF i <= Len(args) THEN args[i] ELSE Undef

\* The callback accessToken() and generateClientCredentials() hand to
\* request(): function (err, body, status, headers), calling fn.
Wrapped(args) ==
  IF Truthy(Argument(args, 1))
  THEN <<Argument(args, 1), NullValue, Argument(args, 3), Argument(args, 4)>>
  ELSE <<NullValue, Argument(args, 2), Argument(args, 3), Argument(args, 4)>>

\* callback(args): recorded, with what fn is called with when the callback
\* is the wrapper of accessToken() or generateClientCredentials().
CallBack(r, args) ==
  IF r.cb = "none"
  THEN [r EXCEPT !.thrown = CallbackIsNotAFunction]
  ELSE [r EXCEPT !.log = Append(@, args),
                 !.fnLog = IF r.via = "request" THEN @ ELSE Append(@, Wrapped(args)),
                 !.thrown = IF r.cb = "throws" THEN CallbackError ELSE @]

\* A call before it has done anything.
NewRequest(via, options, cb) ==
  [via |-> via, options |-> options, cb |-> cb, token |-> _accessToken,
   sent |-> <<>>, written |-> <<>>, out |-> "none",
   log |-> <<>>, fnLog |-> <<>>,
   promise |-> "none", settled |-> Undef, thrown |-> NoError,
   returned |-> Undef]

\* request() that does not look at the path.
Request_AnyPath(via, options, cb) ==
  LET requestOptions == ClientOptions([options EXCEPT !.path = Str(<<"/">>)])
  IN [NewRequest(via, options, cb) EXCEPT
        !.sent = <<requestOptions>>,
        !.written = IF Truthy(requestOptions.body) THEN <<requestOptions.body>> ELSE <<>>,
        !.out = "open"]

\* The synchronous body of request(options, callback).
Request(via, options, cb) ==
  LET r == NewRequest(via, options, cb)
      isPromise == release = "v3" /\ cb = "none"
  IN IF options.path.t # "string"
     THEN IF isPromise
          THEN [r EXCEPT !.promise = "rejected", !.settled = Err(Error(MustProvidePath))]
          ELSE CallBack(r, <<Err(Error(MustProvidePath))>>)
     ELSE LET requestOptions == ClientOptions(options)
          IN [r EXCEPT
                !.sent = <<requestOptions>>,
                !.written = IF Truthy(requestOptions.body)
                            THEN <<requestOptions.body>> ELSE <<>>,
                !.out = "open",
                !.promise = IF isPromise THEN "pending" ELSE "none"]

\* The kept headers object after the call: request() writes on the object
\* it was given.
KeptAfter(options) ==
  IF options.headers.ref = "kept" /\ options.path.t = "string"
  THEN ClientOptions(options).headers
  ELSE kept

ResponseHeaders == Obj([server |-> Str(<<"nginx">>)])

\* _handleRequest rejecting the promise with the raw body.
Reject_RawBody(r, err, buffer, status) ==
  IF r.promise # "none"
  THEN Settle(r, "rejected", buffer)
  ELSE CallBack(r, <<err, buffer, Number(status), ResponseHeaders>>)

\* reject(err, buffer, status, headers) of _handleRequest: the reject of the
\* promise, or the callback again.
Reject(r, err, buffer, status) ==
  IF r.promise # "none"
  THEN Settle(r, "rejected", err)
  ELSE CallBack(r, <<err, buffer, Number(status), ResponseHeaders>>)

\* The 'end' listener of _handleRequest.
OnEnd(r, status, body) ==
  LET done == [r EXCEPT !.out = "done"]
      parsed == IF body.text = <<>> THEN Obj(EmptyObject) ELSE body.value
      malformed == body.text # <<>> /\ ~body.valid
  IN IF status >= FirstErrorStatus
     THEN Reject(done, Err(Error(body.text)), Str(body.text), status)
     ELSE IF release = "v2"
     THEN IF malformed
          THEN CallBack(done, <<Str(body.text), Str(body.text), Number(status), ResponseHeaders>>)
          ELSE CallBack(done, <<NullValue, parsed, Number(status), ResponseHeaders>>)
     ELSE IF malformed
     THEN Reject(done, Err(SyntaxError), Str(body.text), status)
     ELSE IF r.promise # "none"
     THEN Settle(done, "resolved",
                 Obj([statusCode |-> Number(status), body |-> parsed,
                      headers |-> ResponseHeaders]))
     ELSE LET r1 == CallBack(done, <<NullValue, parsed, Number(status), ResponseHeaders>>)
          IN IF r1.thrown # NoError
             THEN Reject([r1 EXCEPT !.thrown = NoError], Err(r1.thrown), Str(body.text), status)
             ELSE r1

\* req.on('error', function (e) { callback(e) }), or reject(e)
OnError(r, e) ==
  IF r.promise # "none"
  THEN Settle([r EXCEPT !.out = "done"], "rejected", Err(e))
  ELSE CallBack([r EXCEPT !.out = "done"], <<Err(e)>>)

\* The options accessToken(code, redirectUri, fn) makes.
AccessTokenOptions(code, redirectUri) ==
  RequestOptions(Str(<<"POST">>), Str(<<"/", "o", "a", "u", "t", "h", "/", "a", "c", "c", "e", "s", "s", "_", "t", "o", "k", "e", "n">>),
                 Obj(<<<<<<"g", "r", "a", "n", "t", "_", "t", "y", "p", "e">>, <<"a", "u", "t", "h", "o", "r", "i", "z", "a", "t", "i", "o", "n", "_", "c", "o", "d", "e">>>>,
                       <<<<"c", "o", "d", "e">>, code>>,
                       <<<<"r", "e", "d", "i", "r", "e", "c", "t", "_", "u", "r", "i">>, redirectUri>>>>),
                 "own", ("Content-Type" :> FormUrlEncoded), Undef)

\* The scope generateClientCredentials(scope, fn) asks for: the array joined
\* with spaces, the string as it is, 'public' for none.
RECURSIVE Join(_)
Join(texts) ==
  IF texts = <<>> THEN <<>>
  ELSE texts[1] \o (IF Len(texts) = 1 THEN <<>> ELSE <<" ">>) \o Join(Tail(texts))

Scopes ==
  {Undef, Str(<<>>), Str(<<"p", "r", "i", "v", "a", "t", "e">>),
   [t |-> "array", v |-> <<>>],
   [t |-> "array", v |-> <<<<"e", "d", "i", "t">>, <<"i", "d">>>>]}

ClientCredentialsOptions(scope) ==
  RequestOptions(Str(<<"POST">>), Str(<<"/", "o", "a", "u", "t", "h", "/", "a", "u", "t", "h", "o", "r", "i", "z", "e", "/", "c", "l", "i", "e", "n", "t">>),
                 Obj(<<<<<<"g", "r", "a", "n", "t", "_", "t", "y", "p", "e">>, <<"c", "l", "i", "e", "n", "t", "_", "c", "r", "e", "d", "e", "n", "t", "i", "a", "l", "s">>>>,
                       <<<<"s", "c", "o", "p", "e">>,
                         IF ~Truthy(scope) THEN <<"p", "u", "b", "l", "i", "c">>
                         ELSE IF scope.t = "array" THEN Join(scope.v)
                         ELSE scope.v>>>>),
                 "own", ("Content-Type" :> FormUrlEncoded), Undef)

\* new Vimeo(clientId, clientSecret, accessToken)
Constructed(clientId, clientSecret, accessToken) ==
  /\ _clientId = clientId
  /\ _clientSecret = clientSecret
  /\ _accessToken = IF Truthy(accessToken) THEN accessToken ELSE NullValue

ClientId == Str(<<"i", "d">>)

ClientSecret == Str(<<"s", "e", "c", "r", "e", "t">>)

Tokens == {Str(<<"t1">>), Str(<<"t2">>)}

\* The queries, paths and bodies of the calls.
Queries ==
  {Undef, Obj(<<>>), Obj(<<<<<<"a">>, <<"e-acute", " ", "b">>>>>>),
   Obj(<<<<<<"a">>, <<"b">>>>, <<<<"c">>, <<"d">>>>>>)}

ApiPaths == {<<"/", "p">>, <<"p">>, <<"/", "p", "?", "x", "=", "1">>}

RawBodies == {Undef, Str(<<>>), Str(<<"t", "e-acute">>)}

OwnHeaders ==
  {EmptyObject, ("Content-Type" :> ApplicationJson), ("Content-Type" :> FormUrlEncoded),
   ("Content-Type" :> TextPlain)}

\* Headers of the caller under the names that have defaults.
DefaultedHeaders ==
  {("Accept" :> Str(<<"application/json">>)),
   ("User-Agent" :> Str(<<"mine/1.0">>)),
   ("Accept" :> Str(<<>>))}

OptionsChoices ==
  {RequestOptions(method, Undef, Undef, "none", EmptyObject, Undef) :
     method \in {Undef, Str(<<"POST">>)}}
    \cup {RequestOptions(method, Str(path), query, "none", EmptyObject, Undef) :
            method \in {Undef, Str(<<"GET">>)}, path \in ApiPaths, query \in Queries}
    \cup {RequestOptions(Str(<<"POST">>), Str(<<"/", "p">>), query, "own", headers, body) :
            query \in Queries, headers \in OwnHeaders, body \in RawBodies}
    \cup {RequestOptions(Str(<<"POST">>), Str(<<"/", "p">>), query, ref, EmptyObject, body) :
            query \in Queries, ref \in {"none", "kept"}, body \in RawBodies}
    \cup {RequestOptions(Str(method), Str(<<"/", "p">>), Obj(<<<<<<"a">>, <<"e-acute", " ", "b">>>>>>),
                         "own", headers, Str(<<"t", "e-acute">>)) :
            method \in {<<"PUT">>, <<"PATCH">>, <<"DELETE">>},
            headers \in {EmptyObject, ("Content-Type" :> TextPlain)}}
    \cup {RequestOptions(Undef, Str(<<"/", "p">>), Undef, "own", headers, Undef) :
            headers \in DefaultedHeaders}

RInit ==
  /\ release \in ApiVersions
  /\ \E accessToken \in {Undef, Str(<<"t1">>)} :
       \/ Constructed(ClientId, ClientSecret, accessToken)
       \/ Constructed(NullValue, NullValue, accessToken)
  /\ kept \in {EmptyObject, ("Content-Type" :> TextPlain)}
  /\ rq = <<>>
  /\ request_defaults = RequestDefaults

\* The one call studied: request(options, callback) or request(options).
CallRequest(options, cb) ==
  /\ rq = <<>>
  /\ rq' = <<Request("request", options, cb)>>
  /\ kept' = KeptAfter(options)
  /\ UNCHANGED <<release, _clientId, _clientSecret, _accessToken, request_defaults>>
  /\ UNCHANGED <<svars, pvars, uvars, tvars>>

\* accessToken(code, redirectUri, fn)
CallAccessToken(code, redirectUri, cb) ==
  /\ rq = <<>>
  /\ release = "v2" => cb # "none"
  /\ rq' = <<Request("accessToken", AccessTokenOptions(code, redirectUri), cb)>>
  /\ UNCHANGED <<release, _clientId, _clientSecret, _accessToken, kept, request_defaults>>
  /\ UNCHANGED <<svars, pvars, uvars, tvars>>

\* generateClientCredentials(scope, fn)
CallGenerateClientCredentials(scope, cb) ==
  /\ rq = <<>>
  /\ release = "v2" => cb # "none"
  /\ rq' = <<Request("generateClientCredentials", ClientCredentialsOptions(scope), cb)>>
  /\ UNCHANGED <<release, _clientId, _clientSecret, _accessToken, kept, request_defaults>>
  /\ UNCHANGED <<svars, pvars, uvars, tvars>>

\* The response to request i has ended.
ResponseEnd(i, status, body) ==
  /\ rq[i].out = "open"
  /\ rq' = [rq EXCEPT ![i] = OnEnd(@, status, body)]
  /\ UNCHANGED <<release, _clientId, _clientSecret, _accessToken, kept, request_defaults>>
  /\ UNCHANGED <<svars, pvars, uvars, tvars>>

\* Request i fails on the wire.
RequestFailed(i, e) ==
  /\ rq[i].out = "open"
  /\ rq' = [rq EXCEPT ![i] = OnError(@, e)]
  /\ UNCHANGED <<release, _clientId, _clientSecret, _accessToken, kept, request_defaults>>
  /\ UNCHANGED <<svars, pvars, uvars, tvars>>

\* The text of a value in a query string: '' for null.
QueryText(x) == IF x.t = "string" THEN x.v ELSE <<>>

\* What buildAuthorizationEndpoint(redirectUri, scope, state) returns.
AuthorizationEndpoint(redirectUri, scope, state) ==
  LET query == <<<<<<"r", "e", "s", "p", "o", "n", "s", "e", "_", "t", "y", "p", "e">>, <<"c", "o", "d", "e">>>>,
                 <<<<"c", "l", "i", "e", "n", "t", "_", "i", "d">>, QueryText(_clientId)>>,
                 <<<<"r", "e", "d", "i", "r", "e", "c", "t", "_", "u", "r", "i">>, redirectUri>>,
                 <<<<"s", "c", "o", "p", "e">>,
                   IF ~Truthy(scope) THEN <<"p", "u", "b", "l", "i", "c">>
                   ELSE IF scope.t = "array" THEN Join(scope.v)
                   ELSE scope.v>>>>
                  \o (IF Truthy(state) THEN <<<<<<"s", "t", "a", "t", "e">>, state.v>>>> ELSE <<>>)
  IN Str(<<"https:", "//">> \o request_defaults.hostname \o <<"/oauth/authorize", "?">>
           \o QsStringify(Obj(query)).v)

States == {Undef, Str(<<"s", "1">>)}

\* buildAuthorizationEndpoint(redirectUri, scope, state)
CallBuildAuthorizationEndpoint(redirectUri, scope, state) ==
  /\ rq = <<>>
  /\ rq' = <<[NewRequest("buildAuthorizationEndpoint", Undef, "none") EXCEPT
               !.returned = AuthorizationEndpoint(redirectUri, scope, state)]>>
  /\ UNCHANGED <<release, _clientId, _clientSecret, _accessToken, kept, request_defaults>>
  /\ UNCHANGED <<svars, pvars, uvars, tvars>>

InitRequest == SInit /\ PIdle /\ UIdle /\ RInit /\ TIdle

NextRequest ==
  \/ \E options \in OptionsChoices, cb \in Callbacks : CallRequest(options, cb)
  \/ \E cb \in Callbacks : CallAccessToken(<<"c">>, <<"r">>, cb)
  \/ \E scope \in Scopes, cb \in Callbacks : CallGenerateClientCredentials(scope, cb)
  \/ \E scope \in Scopes, state \in States :
       CallBuildAuthorizationEndpoint(<<"r">>, scope, state)
  \/ \E i \in 1..Len(rq) :
       \/ \E status \in NegotiationStatuses, body \in ResponseBodies :
            ResponseEnd(i, status, body)
       \/ RequestFailed(i, SocketError)

SpecRequest == InitRequest /\ [][NextRequest]_vars

----
(***************************************************************************)
(* Two invocations on one Vimeo instance, `call` and `twin`, each with its *)
(* own arguments, running interleaved: the handlers of the one and of the  *)
(* other run in any order.  upload() and replace() write nothing to the    *)
(* instance; what a handler reads is what its closure captured.            *)
(***************************************************************************)
\* The locals kept on the instance (_self.fileSize, _self.file): the
\* invocation made meanwhile has overwritten them.
Closure_OnInstance(own, other) ==
  IF other.phase = "idle"
  THEN own
  ELSE [own EXCEPT !.file = other.file, !.fileSize = other.fileSize]

\* What the callbacks of an invocation read: its own parameters and its own
\* `var fileSize`, whatever the other invocation has done.
Closure(own, other) == own

OtherVideoUri == <<"/videos/8">>

\* The arguments of one of the two: its own params and callbacks, or in the
\* Promise version its own params alone.
PairArguments(version, p, a, b, c) ==
  {Arguments(Obj(p), Fn(a), Fn(b), Fn(c))}
    \cup (IF version = "v3" THEN {Arguments(Obj(p), Undef, Undef, Undef)} ELSE {})

\* The sessions the API hands out.
Sessions == {b \in ResponseBodies : b.valid /\ Get(b.value.v, "uri").t = "string"}

PairInit ==
  \E version \in ApiVersions, op1 \in Operations, op2 \in Operations :
   \E p1 \in Paths, p2 \in Paths, s1 \in {<<>>, <<1>>}, s2 \in {<<>>, <<MaxSize>>} :
    \E a1 \in PairArguments(version, [name |-> Str(<<"title">>)], "cb1", "cb2", "cb3"),
       a2 \in PairArguments(version, EmptyObject, "cb4", "cb5", "cb6") :
      /\ p1 # p2
      /\ call = NewCall(version, op1, Str(p1), s1, a1)
      /\ twin = [NewCall(version, op2, Str(p2), s2, a2) EXCEPT !.videoUri = OtherVideoUri]

\* The invocation `w` (1 is call, 2 is twin) and the other one.
Own(w) == IF w = 1 THEN call ELSE twin
Other(w) == IF w = 1 THEN twin ELSE call

\* A handler of invocation w has run and left it as c.
Becomes(w, c) ==
  /\ call' = IF w = 1 THEN c ELSE call
  /\ twin' = IF w = 2 THEN c ELSE twin
  /\ UNCHANGED <<svars, pvars, rvars, tvars>>

\* upload(file, ...) or replace(file, videoUri, ...)
PairInvoke(w) ==
  /\ Own(w).phase = "idle"
  /\ Becomes(w, Invoke(Own(w)))

\* The negotiation request of w fails on the wire.
PairNegotiationError(w, e) ==
  /\ Own(w).reqOut = "open"
  /\ Becomes(w, OnRequestError(Closure(Own(w), Other(w)), e))

\* The response to the negotiation request of w ends.
PairNegotiationResponse(w, status, body) ==
  /\ Own(w).reqOut = "open"
  /\ Becomes(w, OnResponseEnd(Closure(Own(w), Other(w)), status, body))

\* The tus client of w reports progress.
PairTusProgress(w, sent) ==
  /\ Own(w).tusState = "running"
  /\ Own(w).progressEvents < MaxProgress
  /\ Becomes(w, OnTusProgress(Closure(Own(w), Other(w)), sent))

\* The tus client of w finishes the transfer.
PairTusSuccess(w, payload) ==
  /\ Own(w).tusState = "running"
  /\ Becomes(w, OnTusSuccess(Closure(Own(w), Other(w)), payload))

\* The tus client of w gives up.
PairTusError(w, e) ==
  /\ Own(w).tusState = "running"
  /\ Becomes(w, OnTusError(Closure(Own(w), Other(w)), e))

InitPair == SInit /\ PIdle /\ PairInit /\ RIdle /\ TIdle

NextPair ==
  \E w \in {1, 2} :
    \/ PairInvoke(w)
    \/ PairNegotiationError(w, SocketError)
    \/ \E status \in NegotiationStatuses, body \in Sessions :
         PairNegotiationResponse(w, status, body)
    \/ PairTusProgress(w, MaxSize)
    \/ PairTusSuccess(w, Undef)
    \/ PairTusError(w, SocketError)

SpecPair == InitPair /\ [][NextPair]_vars

----
(***************************************************************************)
(* Properties of the streamer (Spec).                                      *)
(***************************************************************************)
\* Nothing of the run is outstanding: no fs callback, no exchange that can
\* still call back, no close.
Quiescent ==
  /\ fsPending = "none"
  /\ closePending = 0
  /\ \A i \in 1..Len(reqs) : reqs[i].out = "done" /\ reqs[i].file # "reading"

\* The run is over: nothing outstanding, or the process has died.
Finished == ~Running \/ Quiescent

\* The last step was the response to a range check.
RangeAnswered(e) == e.handler = "rangeResponse"

\* C1: a run of upload() invokes exactly one terminal handler: never more than
\* one of ready and error, and one of them once the run is over.
C1_ExactlyOneTerminal ==
  /\ readyCalls + errorCalls <= 1
  /\ Finished => readyCalls + errorCalls = 1

C3_ResumesAtConfirmedOffset ==
  [][(/\ RangeAnswered(lastEvent')
      /\ lastEvent'.start # NaN
      /\ lastEvent'.start[1] > 0
      /\ lastEvent'.start[1] < _file_size)
       => /\ Len(reqs') = Len(reqs) + 1
          /\ LET x == reqs'[Len(reqs')]
                 k == lastEvent'.start[1]
             IN /\ x.kind = "put"
                /\ x.method = "PUT"
                /\ x.readFrom = k
                /\ x.headers.ContentRange =
                     <<"bytes ">> \o NumberToString(k) \o <<"-">>
                       \o NumberToString(_file_size) \o <<"/">>
                       \o NumberToString(_file_size)]_vars

C3_Witness ==
  /\ RangeAnswered(lastEvent)
  /\ lastEvent.start = Num(1)
  /\ _file_size = 2
  /\ reqs[Len(reqs)].kind = "put"
  /\ reqs[Len(reqs)].readFrom = 1

C9_YieldsUpperBound == rangeParsed => newStart = Num(rangeN)

C9_Witness == rangeParsed /\ rangeN > 99 /\ newStart = Num(rangeN)

(***************************************************************************)
(* Properties of upload() and replace() (SpecUpload).                      *)
(***************************************************************************)
\* The caller passed the three callbacks.
InCallbackStyle ==
  \/ call.args.errorCallback.t = "function"
  \/ call.args.params.t = "function" /\ call.args.progressCallback.t = "function"

\* The file is a path fs.statSync throws on.
StatFails == call.file.t = "string" /\ call.stat = <<>>

\* The size the negotiation has to announce, when there is one.
SizeResolves ==
  \/ call.file.t = "string" /\ call.stat # <<>>
  \/ call.file.t = "object" /\ call.version = "v2"

ResolvedSize ==
  IF call.file.t = "string" THEN Number(call.stat[1]) ELSE call.file.v.size

\* The params the caller passed: {} when the argument was left out.
CallerParams == IF call.args.params.t = "object" THEN call.args.params.v ELSE EmptyObject

CallerUpload == Get(CallerParams, "upload")

\* The name replace() announces for the file.
FileName ==
  IF call.file.t = "object" THEN call.file.v.name
  ELSE IF call.file.v = <<"/", "v", "/", "a", ".", "m", "p", "4">>
  THEN Str(<<"a", ".", "m", "p", "4">>)
  ELSE Str(call.file.v)

\* C5: in callback style, with a path whose stat fails, the error callback is
\* invoked exactly once with 'Unable to locate file to upload.', no other
\* callback is, no request is made and no transfer is started.
C5_MissingFileReportedOnce ==
  (call.phase # "idle" /\ InCallbackStyle /\ StatFails)
    => /\ Len(call.log) = 1
       /\ call.log[1].fn = "cb3"
       /\ call.log[1].args = <<Str(<<"Unable to locate file to upload.">>)>>
       /\ call.requests = <<>>
       /\ call.performCalls = <<>>
       /\ call.tus = <<>>
       /\ call.thrown = NoError

C5_Witness ==
  /\ call.phase = "returned"
  /\ InCallbackStyle
  /\ StatFails
  /\ call.statCalls = 1
  /\ Len(call.log) = 1

\* The query of the negotiation request forces approach and size and leaves
\* the caller's other fields, except those in `set`, as they were.
ForcesOnly(q, set) ==
  /\ q.upload.v.approach = Str(<<"tus">>)
  /\ q.upload.v.size = ResolvedSize
  /\ DOMAIN q = DOMAIN CallerParams \cup {"upload"} \cup set
  /\ \A k \in DOMAIN CallerParams \ ({"upload"} \cup set) : Same(q[k], CallerParams[k])
  /\ CallerUpload.t = "object"
       => /\ DOMAIN q.upload.v = DOMAIN CallerUpload.v \cup {"approach", "size"}
          /\ \A k \in DOMAIN CallerUpload.v \ {"approach", "size"} :
               Same(q.upload.v[k], CallerUpload.v[k])
  /\ CallerUpload.t # "object" => DOMAIN q.upload.v = {"approach", "size"}

\* C6 as stated: whatever params the caller passes, the negotiation request
\* carries upload.approach = 'tus' and upload.size = the resolved size, and
\* every other field of params and params.upload as the caller passed it.
C6_ForcesExactlyTwoFields ==
  (call.phase # "idle" /\ SizeResolves)
    => /\ Len(call.requests) = 1
       /\ ForcesOnly(call.requests[1].options.query.v, {})

\* C6, amended: when params.upload is absent or an object, the request carries
\* upload.approach = 'tus' and upload.size = the resolved size, replace()
\* also sets file_name to the name of the file, and every other field of
\* params and params.upload is as the caller passed it; when params.upload is
\* null the call throws a TypeError and makes no request.
C6_ForcesApproachSizeAndFileName ==
  (call.phase # "idle" /\ SizeResolves)
    => IF CallerUpload.t = "null"
       THEN call.requests = <<>> /\ call.thrown.name = "TypeError"
       ELSE /\ Len(call.requests) = 1
            /\ LET q == call.requests[1].options.query.v
               IN IF call.op = "replace"
                  THEN ForcesOnly(q, {"file_name"}) /\ Same(q.file_name, FileName)
                  ELSE ForcesOnly(q, {})

C6_Witness ==
  /\ call.op = "replace"
  /\ Len(call.requests) = 1
  /\ CallerUpload.t = "object"
  /\ "redirect_url" \in DOMAIN CallerUpload.v
  /\ call.requests[1].options.query.v.upload.v.redirect_url = Str(<<"https://r">>)
  /\ call.requests[1].options.query.v.upload.v.approach = Str(<<"tus">>)

\* C7: the invocation without params and the one with {} in its place make
\* the same negotiation request, hand the same (file, size, attempt, cb1, cb2,
\* cb3) to _performTusUpload, and invoke the same callbacks alike.
C7_OmittedParamsIsEmptyParams ==
  twin.phase # "none"
    => /\ call.requests = twin.requests
       /\ call.performCalls = twin.performCalls
       /\ call.tus = twin.tus
       /\ call.log = twin.log
       /\ call.thrown = twin.thrown
       /\ call.phase = twin.phase
       /\ \A i \in 1..Len(call.performCalls) :
            /\ call.performCalls[i].completeCallback = Fn("cb1")
            /\ call.performCalls[i].progressCallback = Fn("cb2")
            /\ call.performCalls[i].errorCallback = Fn("cb3")

C7_Witness ==
  /\ twin.phase = "completed"
  /\ call.args.params.t = "function"
  /\ Len(call.requests) = 1
  /\ Len(call.performCalls) = 1
  /\ Len(twin.performCalls) = 1

\* The negotiation request failed: on the wire, by its status, or by a body
\* that is not JSON.
NegotiationFailed == call.outcome \in {"error", "status", "json"}

\* No transfer, no completion.
NothingTransferred ==
  /\ call.performCalls = <<>>
  /\ call.tus = <<>>
  /\ call.promise # "resolved"
  /\ \A i \in 1..Len(call.log) : call.log[i].fn = "cb3"

\* C8 as stated: when the negotiation request fails, the caller gets exactly
\* one error whose message is 'Unable to initiate an upload. [<message of the
\* underlying error>]', and there is no transfer and no completion.
C8_WrapsUnderlyingMessage ==
  NegotiationFailed
    => /\ NothingTransferred
       /\ LET text == <<"Unable to initiate an upload. [">> \o call.err.message \o <<"]">>
          IN IF InCallbackStyle
             THEN call.log = <<[fn |-> "cb3", args |-> <<Str(text)>>]>>
             ELSE /\ call.promise = "rejected"
                  /\ call.settled.t = "error"
                  /\ call.settled.v.message = text
                  /\ call.log = <<>>

\* C8, amended: when the negotiation request fails there is no transfer and
\* no completion, and the caller gets exactly one error: in callback style the
\* string 'Unable to initiate an upload. [' + String(err) + ']', which for an
\* Error is '[Error: <message>]'; in promise style an Error whose message is
\* 'Unable to initiate an upload. [<message>]'.
C8_WrapsUnderlyingError ==
  NegotiationFailed
    => /\ NothingTransferred
       /\ LET e == call.err
              string == IF e.name = "string" THEN e.message
                        ELSE IF e.message = <<>> THEN <<e.name>>
                        ELSE <<e.name, ": ">> \o e.message
          IN IF InCallbackStyle
             THEN call.log =
                    <<[fn |-> "cb3",
                       args |-> <<Str(<<"Unable to initiate an upload. [">> \o string
                                        \o <<"]">>)>>]>>
             ELSE /\ call.promise = "rejected"
                  /\ call.settled.t = "error"
                  /\ call.settled.v =
                       Error(<<"Unable to initiate an upload. [">> \o e.message \o <<"]">>)
                  /\ call.log = <<>>

C8_Witness ==
  /\ call.outcome = "status"
  /\ InCallbackStyle
  /\ call.err = Error(<<"<html>">>)
  /\ Len(call.log) = 1
  /\ call.log[1].args[1].v = <<"Unable to initiate an upload. [", "Error", ": ", "<html>", "]">>

\* The caller passed no error callback and at most one function: the call
\* returns a promise.
InPromiseStyle == call.version = "v3" /\ ~InCallbackStyle

\* The completion values reported to the caller: the arguments completeCallback
\* was called with, or the value the promise resolved with.
CompletionValues ==
  IF InCallbackStyle
  THEN [i \in {j \in 1..Len(call.log) : call.log[j].fn = "cb1"} |-> call.log[i].args]
  ELSE IF call.promise = "resolved" THEN [i \in {1} |-> <<call.settled>>]
  ELSE [i \in {} |-> <<>>]

\* C11: when the transfer succeeds, upload() reports the uri of the session
\* the negotiation returned and replace() the videoUri of the caller, once,
\* and never what the transfer client handed over.
C11_ReportsSessionUri ==
  call.tusState = "succeeded"
    => /\ Cardinality(DOMAIN CompletionValues) = 1
       /\ \A i \in DOMAIN CompletionValues :
            /\ Len(CompletionValues[i]) = 1
            /\ Same(CompletionValues[i][1],
                    IF call.op = "replace" THEN Str(<<"/videos/7">>)
                    ELSE Get(call.response.v, "uri"))

C11_Witness ==
  /\ call.tusState = "succeeded"
  /\ call.op = "replace"
  /\ call.response = OtherAttempt
  /\ call.promise = "resolved"
  /\ call.settled = Str(<<"/videos/7">>)

\* The Promise version called with one function and no other callback:
\* upload(file, fn) or upload(file, params, fn).
WithProgressFunctionOnly ==
  /\ call.version = "v3"
  /\ call.args.progressCallback.t = "undefined"
  /\ call.args.errorCallback.t = "undefined"
  /\ \/ call.args.params.t = "function"
     \/ call.args.completeCallback.t = "function"

\* The uri a successful transfer has to report.
SessionUri ==
  IF call.op = "replace" THEN Str(<<"/videos/7">>) ELSE Get(call.response.v, "uri")

\* C12: upload(file, fn) and upload(file, params, fn) of the Promise version
\* return a promise and give fn exactly the progress events of the transfer,
\* in order and with their arguments, and nothing once the promise has
\* settled; the promise resolves with the uri when the transfer succeeds and
\* rejects with the error of the transfer when it fails.
C12_FunctionIsProgressCallback ==
  /\ [](WithProgressFunctionOnly
          => /\ call.requests # <<>> => call.promise # "none"
             /\ Len(call.log) = Len(call.emitted)
             /\ \A i \in 1..Len(call.log) :
                  call.log[i].fn = "cb1" /\ call.log[i].args = call.emitted[i]
             /\ call.tusState = "running" => call.promise = "pending"
             /\ call.tusState = "succeeded"
                  => call.promise = "resolved" /\ Same(call.settled, SessionUri)
             /\ call.tusState = "failed"
                  => call.promise = "rejected" /\ call.settled = Err(SocketError))
  /\ [][(WithProgressFunctionOnly /\ call.promise \in {"resolved", "rejected"})
          => call'.log = call.log]_vars

C12_Witness ==
  /\ WithProgressFunctionOnly
  /\ call.args.params.t = "function"
  /\ call.promise = "resolved"
  /\ Len(call.log) = 2
  /\ call.log[2].fn = "cb1"

\* C13 as stated: a path whose stat fails is reported as 'Unable to locate
\* file to upload.', to errorCallback in callback style and as the rejection
\* of the promise in promise style, and nothing is thrown to the caller.
C13_UnableToLocateBothStyles ==
  (call.phase # "idle" /\ StatFails)
    => /\ call.thrown = NoError
       /\ call.requests = <<>>
       /\ IF InCallbackStyle
          THEN call.log = <<[fn |-> "cb3",
                             args |-> <<Str(<<"Unable to locate file to upload.">>)>>]>>
          ELSE /\ call.promise = "rejected"
               /\ call.settled.t = "error"
               /\ call.settled.v.message = <<"Unable to locate file to upload.">>

\* C13, amended: a path whose stat fails is reported, and nothing is thrown
\* to the caller: in callback style errorCallback gets the string 'Unable to
\* locate file to upload.', in promise style the promise rejects with the
\* error fs.statSync threw, as it is.
C13_MissingFileBothStyles ==
  (call.phase # "idle" /\ StatFails)
    => /\ call.thrown = NoError
       /\ call.requests = <<>>
       /\ IF InCallbackStyle
          THEN call.log = <<[fn |-> "cb3",
                             args |-> <<Str(<<"Unable to locate file to upload.">>)>>]>>
          ELSE /\ call.promise = "rejected"
               /\ call.settled.t = "error"
               /\ call.settled.v = Error(<<"ENOENT: no such file or directory, stat">>)
               /\ call.log = <<>>

C13_Witness ==
  /\ InPromiseStyle
  /\ StatFails
  /\ call.op = "replace"
  /\ call.promise = "rejected"
  /\ call.settled.v.name = "Error"

(***************************************************************************)
(* More properties of the streamer.                                        *)
(***************************************************************************)
\* The offset is one the streamer may hold: a number from 0 to the size.
InRange(start) == start # NaN /\ start[1] >= 0 /\ start[1] <= _file_size

\* C14: the confirmed offset the streamer holds after a range check, and every
\* offset it starts a data PUT from, lies between 0 and the size of the file.
C14_ConfirmedOffsetInRange ==
  /\ (Running /\ RangeAnswered(lastEvent) /\ lastEvent.status = ResumeIncomplete)
       => InRange(lastEvent.start)
  /\ \A i \in 1..Len(reqs) : reqs[i].kind = "put" => InRange(reqs[i].start)

\* C15: when every file operation and every exchange gets its outcome, a
\* terminal handler is eventually invoked (a process that has died of an
\* uncaught exception is not held against it).
C15_EventuallyTerminal == <>(readyCalls + errorCalls > 0 \/ ~Running)

\* C16: in callback style completeCallback and errorCallback are never both
\* invoked, whatever stat, the negotiation and the transfer do; a negotiation
\* that succeeded hands over to _performTusUpload exactly once (which starts
\* one transfer when the session has an upload link), any other none.
C16_OneTerminalOneTransfer ==
  InCallbackStyle
    => /\ ~(/\ \E i \in 1..Len(call.log) : call.log[i].fn = "cb1"
            /\ \E j \in 1..Len(call.log) : call.log[j].fn = "cb3")
       /\ call.outcome = "ok"
            => /\ Len(call.performCalls) = 1
               /\ Get(call.response.v, "upload").t = "object"
                    => Len(call.tus) = 1 /\ call.tus[1].started
       /\ call.outcome # "ok" => call.performCalls = <<>> /\ call.tus = <<>>

C16_Witness ==
  /\ InCallbackStyle
  /\ call.outcome = "ok"
  /\ call.tusState = "failed"
  /\ Len(call.performCalls) = 1
  /\ \E j \in 1..Len(call.log) : call.log[j].fn = "cb3"

\* The event is an error of a data PUT with no response status: 'error' of
\* the read stream or of the request.
TransportError(e) == e.handler \in {"fileError", "putError"}

\* C17 as stated: a transport-level error during a data PUT closes the file,
\* hands that error to the error handler and opens no further exchange.
C17_TransportErrorTerminates ==
  [][TransportError(lastEvent')
       => /\ _fd' = <<>>
          /\ errorCalls' = errorCalls + 1
          /\ errors'[Len(errors')] \in {ReadError, SocketError}
          /\ Len(reqs') = Len(reqs)]_vars

\* C17, amended: a transport-level error during a data PUT is not terminal:
\* the file stays as it is, no handler is invoked, and a range check is
\* issued to find out where to resume.
C17_TransportErrorResumes ==
  [][TransportError(lastEvent')
       => /\ _fd' = _fd
          /\ closeCalls' = closeCalls
          /\ errorCalls' = errorCalls
          /\ errors' = errors
          /\ readyCalls' = readyCalls
          /\ Len(reqs') = Len(reqs) + 1
          /\ reqs'[Len(reqs')].kind = "range"]_vars

C17_Witness ==
  /\ lastEvent.handler = "putError"
  /\ reqs[Len(reqs)].kind = "range"
  /\ reqs[Len(reqs)].out = "open"
  /\ errorCalls = 0
  /\ closeCalls = 0
  /\ _fd # <<>>

\* C18: when fs.stat or fs.open fails, the error handler is invoked exactly
\* once with that error, no HTTP exchange is made and ready is never invoked.
C18_StatOrOpenFailureReported ==
  /\ lastEvent.handler = "statFailed"
       => /\ Running
          /\ errorCalls = 1
          /\ errors = <<StatError>>
          /\ reqs = <<>>
          /\ readyCalls = 0
  /\ lastEvent.handler = "openFailed"
       => /\ Running
          /\ errorCalls = 1
          /\ errors = <<OpenError>>
          /\ reqs = <<>>
          /\ readyCalls = 0

\* C19: a failure of fs.close reaches the error handler: it is neither
\* swallowed nor thrown.
C19_CloseFailureReported ==
  lastEvent.handler = "closeFailed"
    => /\ uncaught = NoError
       /\ errorCalls > 0
       /\ errors[Len(errors)] = CloseError

(***************************************************************************)
(* Properties of two interleaved invocations (SpecPair).                   *)
(***************************************************************************)
\* The functions invocation c was given.
OwnFunctions(c) ==
  {f.v[1] : f \in {g \in {c.args.completeCallback, c.args.progressCallback,
                          c.args.errorCallback} : g.t = "function"}}

\* The uri invocation c has to report: that of its own session, or its own
\* videoUri.
OwnUri(c) == IF c.op = "replace" THEN Str(c.videoUri) ELSE Get(c.response.v, "uri")

\* Everything invocation c has done, it has done with its own file, size,
\* session and callbacks.
OnItsOwn(c) ==
  /\ \A i \in 1..Len(c.log) : c.log[i].fn \in OwnFunctions(c)
  /\ \A i \in 1..Len(c.requests) :
       Same(c.requests[i].options.query.v.upload.v.size, Number(c.stat[1]))
  /\ \A i \in 1..Len(c.performCalls) :
       /\ c.performCalls[i].file = c.file
       /\ Same(c.performCalls[i].fileSize, Number(c.stat[1]))
       /\ Same(Get(c.performCalls[i].attempt.v, "uri"), OwnUri(c))
  /\ \A i \in 1..Len(c.tus) :
       /\ c.tus[i].file = FileUpload(c.file)
       /\ Same(c.tus[i].uploadSize, Number(c.stat[1]))
       /\ Same(c.tus[i].url, Get(Get(c.response.v, "upload").v, "upload_link"))
  /\ \A i \in 1..Len(c.emitted) : Same(c.emitted[i][2], Number(c.stat[1]))
  /\ \A i \in 1..Len(c.log) :
       c.log[i].fn = c.args.completeCallback.v[1] => c.log[i].args = <<OwnUri(c)>>
  /\ c.promise = "resolved" => c.settled = OwnUri(c)

Outstanding == {i \in 1..Len(reqs) : reqs[i].out = "open"}

\* C21: at most one exchange is outstanding at any time, and no exchange
\* hands the state machine an outcome twice (the error of its read stream
\* and then the outcome of its request).
C21_OneExchangeAtATime ==
  /\ Cardinality(Outstanding) <= 1
  /\ \A i \in 1..Len(reqs) : ~(reqs[i].file = "errored" /\ reqs[i].out = "done")

(***************************************************************************)
(* More properties of upload() and replace() (SpecUpload).                 *)
(***************************************************************************)
\* upload()/replace() of src/lib/vimeo.js given a file-like object.
GivenFileObject == call.version = "v2" /\ call.file.t = "object"

C24_ReplaceTargetsVersions ==
  \A i \in 1..Len(call.requests) :
    LET o == call.requests[i].options
        q == o.query.v
    IN /\ o.method = <<"POST">>
       /\ q.upload.v.approach = Str(<<"tus">>)
       /\ q.upload.v.size = ResolvedSize
       /\ IF call.op = "replace"
          THEN /\ o.path = <<"/videos/7", "/versions?fields=upload">>
               /\ call.file.t = "string" => Same(Get(q, "file_name"), FileName)
          ELSE /\ o.path = <<"/me/videos?fields=uri,name,upload">>
               /\ Same(Get(q, "file_name"), Get(CallerParams, "file_name"))

C24_Witness ==
  /\ call.op = "replace"
  /\ call.file = Str(<<"/", "v", "/", "a", ".", "m", "p", "4">>)
  /\ Len(call.requests) = 1
  /\ call.requests[1].options.path = <<"/videos/7", "/versions?fields=upload">>
  /\ call.requests[1].options.query.v.file_name = Str(<<"a", ".", "m", "p", "4">>)
  /\ Get(CallerParams, "file_name") = Str(<<"mine.mp4">>)

----
(***************************************************************************)
(* request(), accessToken() and generateClientCredentials()                *)
(***************************************************************************)
\* The call studied is request() with options that have no string path.
NoPathCall ==
  /\ rq # <<>>
  /\ rq[1].via = "request"
  /\ rq[1].options.path.t # "string"

Outcomes(r) == IF r.promise = "none" THEN r.log ELSE <<<<r.settled>>>>

\* C26: a completed response is classified by status and body.  A status of
\* 400 or more is an error outcome (Error(body text), raw body, status,
\* headers); below 400 an empty body is the success {}, valid JSON the success
\* with the parsed body, and invalid JSON an error outcome whose first
\* argument is the JSON parse Error.
C26_ResponseClassified ==
  [][\A status \in NegotiationStatuses, body \in ResponseBodies :
       (rq # <<>> /\ rq[1].cb = "returns" /\ ResponseEnd(1, status, body)) =>
         LET rest == <<Number(status), ResponseHeaders>>
         IN /\ rq'[1].promise = "none"
            /\ rq'[1].log =
                 <<IF status >= FirstErrorStatus
                   THEN <<Err(Error(body.text)), Str(body.text)>> \o rest
                   ELSE IF body.text = <<>>
                   THEN <<NullValue, Obj(EmptyObject)>> \o rest
                   ELSE IF body.valid
                   THEN <<NullValue, body.value>> \o rest
                   ELSE <<Err(SyntaxError), Str(body.text)>> \o rest>>]_vars

\* The call studied is request() in callback style and has reached the
\* transport.
CallbackStyleSent ==
  /\ rq # <<>>
  /\ rq[1].via = "request"
  /\ rq[1].cb # "none"
  /\ rq[1].sent # <<>>

\* C27: a request() in callback style that reached the transport calls its
\* callback exactly once: not before the transport delivers the response end
\* or the request 'error', and once when it has, also when the callback
\* throws while it is called.
C27_CallbackExactlyOnce ==
  CallbackStyleSent =>
    Len(rq[1].log) = (IF rq[1].out = "done" THEN 1 ELSE 0)

----
(***************************************************************************)
(* The credentials of an instance over several requests: the access token  *)
(* is changed between calls, and the caller may pass the same headers      *)
(* object to more than one call.                                           *)
(***************************************************************************)
MaxCalls == 2

\* The values setAccessToken is called with: tokens, and the empty string.
GivenTokens == Tokens \cup {Str(<<>>)}

\* setAccessToken(accessToken)
SetAccessToken(accessToken) ==
  /\ _accessToken' = accessToken
  /\ UNCHANGED <<release, _clientId, _clientSecret, kept, rq, request_defaults>>
  /\ UNCHANGED <<svars, pvars, uvars, tvars>>

\* request({path: '/p', headers: ...}, callback): one more call on the
\* instance.
NextCall(ref) ==
  LET options == RequestOptions(Undef, Str(<<"/", "p">>), Undef, ref, EmptyObject, Undef)
  IN /\ Len(rq) < MaxCalls
     /\ rq' = Append(rq, Request("request", options, "returns"))
     /\ kept' = KeptAfter(options)
     /\ UNCHANGED <<release, _clientId, _clientSecret, _accessToken, request_defaults>>
     /\ UNCHANGED <<svars, pvars, uvars, tvars>>

InitAuth ==
  /\ SInit /\ PIdle /\ UIdle /\ TIdle
  /\ release \in ApiVersions
  /\ \E accessToken \in {Undef, Str(<<"t1">>)} :
       \/ Constructed(ClientId, ClientSecret, accessToken)
       \/ Constructed(NullValue, NullValue, accessToken)
  /\ kept = EmptyObject
  /\ rq = <<>>
  /\ request_defaults = RequestDefaults

NextAuth ==
  \/ \E accessToken \in GivenTokens : SetAccessToken(accessToken)
  \/ \E ref \in {"none", "kept"} : NextCall(ref)

SpecAuth == InitAuth /\ [][NextAuth]_vars

\* C28: every request carries Authorization 'Bearer <token>' when an access
\* token is set at the moment request() is called, else 'Basic' with the
\* base64 of 'clientId:clientSecret' when both are set, else no Authorization
\* written by the SDK; the token is the one most recently set, and what a
\* request was issued with stays as it was.
C28_AuthorizationOfEachRequest ==
  \A i \in 1..Len(rq) :
    LET authorization == Get(rq[i].sent[1].headers, "Authorization")
    IN IF Truthy(rq[i].token)
       THEN authorization = Str(<<"Bearer ">> \o rq[i].token.v)
       ELSE IF Truthy(_clientId) /\ Truthy(_clientSecret)
       THEN authorization = Str(<<"Basic ">> \o <<"a", "W", "Q", "6", "c", "2", "V", "j", "c", "m", "V", "0">>)
       ELSE authorization = Undef

----
\* The call studied has sent a POST, PATCH, PUT or DELETE.
BodyCall ==
  /\ rq # <<>>
  /\ rq[1].sent # <<>>
  /\ rq[1].sent[1].method \in BodyMethods

\* The request was sent with this body: it is in the options, Content-Length
\* is its length in bytes, 0 for none, and it is written when there is one.
SentWith(r, body) ==
  /\ r.sent[1].body = body
  /\ Get(r.sent[1].headers, "Content-Length")
       = (IF Truthy(body) THEN Number(ByteLength(body.v)) ELSE Number(0))
  /\ r.written = (IF Truthy(body) THEN <<body>> ELSE <<>>)

\* The Content-Type the caller gave, application/json for none.
ContentTypeOf(r) ==
  LET given == Get(IF r.options.headers.ref = "own" THEN r.options.headers.v
                   ELSE IF r.options.headers.ref = "kept" THEN kept
                   ELSE EmptyObject, "Content-Type")
  IN IF Truthy(given) THEN given ELSE ApplicationJson

----
\* The call studied is accessToken() or generateClientCredentials() in
\* callback style.
AuthorizationCall ==
  /\ rq # <<>>
  /\ rq[1].via \in {"accessToken", "generateClientCredentials"}
  /\ rq[1].cb # "none"

\* C30: accessToken() and generateClientCredentials() in callback style call
\* fn exactly once per outcome of the request: fn(err, null, status, headers)
\* when the request reports an error, whatever body came with it, and
\* fn(null, body, status, headers) otherwise.
C30_FnOncePerOutcome ==
  AuthorizationCall =>
    /\ Len(rq[1].fnLog) = (IF rq[1].out = "done" THEN 1 ELSE 0)
    /\ \A k \in 1..Len(rq[1].fnLog) :
         LET given == rq[1].log[k]
             status == IF Len(given) >= 3 THEN given[3] ELSE Undef
             headers == IF Len(given) >= 4 THEN given[4] ELSE Undef
         IN rq[1].fnLog[k] = (IF given[1] # NullValue
                              THEN <<given[1], NullValue, status, headers>>
                              ELSE <<NullValue, given[2], status, headers>>)

----
\* The scope both functions are to ask for: 'public' for an absent or empty
\* scope, the elements of an array joined by single spaces, a string as it
\* is.
NormalisedScope(scope) ==
  IF scope \in {Undef, Str(<<>>), [t |-> "array", v |-> <<>>]}
  THEN <<"p", "u", "b", "l", "i", "c">>
  ELSE IF scope.t = "array"
  THEN Join(scope.v)
  ELSE scope.v

\* The query string buildAuthorizationEndpoint is to produce.
EndpointQuery(scope, state) ==
  <<"r", "e", "s", "p", "o", "n", "s", "e", "_", "t", "y", "p", "e", "=", "c", "o", "d", "e", "&", "c", "l", "i", "e", "n", "t", "_", "i", "d", "=">> \o QueryText(_clientId)
    \o <<"&", "r", "e", "d", "i", "r", "e", "c", "t", "_", "u", "r", "i", "=", "r", "&", "s", "c", "o", "p", "e", "=">> \o Escape(NormalisedScope(scope))
    \o (IF state = Undef THEN <<>> ELSE <<"&", "s", "t", "a", "t", "e", "=">> \o state.v)

\* C31: buildAuthorizationEndpoint() and generateClientCredentials() ask for
\* the same scope: 'public' for an absent or empty scope, the elements of an
\* array joined by single spaces, a string unchanged; and the endpoint has a
\* state parameter exactly when a state was given.
C31_ScopeNormalised ==
  [][\A scope \in Scopes :
       /\ \A cb \in Callbacks :
            CallGenerateClientCredentials(scope, cb) =>
              rq'[1].options.query.v[2] = <<<<"s", "c", "o", "p", "e">>, NormalisedScope(scope)>>
       /\ \A state \in States :
            CallBuildAuthorizationEndpoint(<<"r">>, scope, state) =>
              rq'[1].returned =
                Str(<<"https:", "//", "api.vimeo.com", "/oauth/authorize", "?">>
                      \o EndpointQuery(scope, state))]_vars

----
(***************************************************************************)
(* The streamer once more: data PUTs that fail, progress, and what follows *)
(* the terminal handler.                                                   *)
(***************************************************************************)
\* The event is the response to a data PUT ending with an error status: the
\* callback gets both an error and a status code.
PutFailedWithStatus(e) == e.handler = "putResponse" /\ e.status > LastSuccessStatus

\* The exchanges hold one more data PUT than before.
FurtherPut ==
  /\ Len(reqs') > Len(reqs)
  /\ reqs'[Len(reqs')].kind = "put"

\* C32: a data PUT whose outcome carries an error and a response status
\* closes the file and hands that error to the error handler in the same
\* step, issues no range check, and no data PUT follows: neither that step
\* nor the one after it opens an exchange.
C32_FailedPutIsFatal ==
  [][/\ PutFailedWithStatus(lastEvent')
          => /\ _fd' = <<>>
             /\ _fd # <<>> => closeCalls' = closeCalls + 1
             /\ errorCalls' = errorCalls + 1
             /\ errors' = Append(errors, Error(<<"[", "Bad Request", "]">>))
             /\ reqs' = Delivered(reqs, lastEvent'.req)
     /\ PutFailedWithStatus(lastEvent) => ~FurtherPut]_vars

\* C33: within one data PUT the progress events report the offset the PUT
\* reads from plus the bytes read so far, which grows with every event, and
\* as total the size stat resolved, which stays as it is; nothing else
\* reports progress.
C33_ProgressIsOffsetPlusRead ==
  [][/\ lastEvent'.handler = "data"
          => LET i == lastEvent'.req
             IN /\ reqs[i].kind = "put"
                /\ reqs'[i].read > reqs[i].read
                /\ progress' = <<reqs[i].readFrom + reqs'[i].read, _file_size>>
                /\ progress'[1] > reqs[i].readFrom + reqs[i].read
                /\ progress'[1] <= _file_size
     /\ lastEvent'.handler # "data" => progress' = progress
     /\ lastEvent'.handler # "stat" => _file_size' = _file_size]_vars

C33_Witness ==
  /\ lastEvent.handler = "data"
  /\ reqs[lastEvent.req].readFrom = 1
  /\ reqs[lastEvent.req].read = 1
  /\ progress = <<2, 2>>

\* C34: once the ready handler or the error handler of an upload has been
\* invoked, no progress callback is invoked any more.
C34_NoProgressAfterTerminal ==
  [][readyCalls + errorCalls > 0 => lastEvent'.handler # "data"]_vars

----
(***************************************************************************)
(* More properties of upload() and replace().                              *)
(***************************************************************************)
\* The upload.size of the negotiation request of the invocation.
NegotiatedSize(c) == Get(Get(c.requests[1].options.query.v, "upload").v, "size")

\* C35: an invocation resolves the size of the file once, before it
\* negotiates (one fs.statSync for a path, none for a file object); the
\* negotiation request carries that size as upload.size, and each transfer is
\* handed the same size as uploadSize.
C35_SizeResolvedOnce ==
  /\ call.statCalls <= 1
  /\ call.requests # <<>> =>
       /\ Len(call.requests) = 1
       /\ call.statCalls = (IF call.file.t = "string" THEN 1 ELSE 0)
       /\ call.fileSize = (IF call.file.t = "string" THEN Number(call.stat[1])
                           ELSE Get(call.file.v, "size"))
       /\ NegotiatedSize(call) = call.fileSize
       /\ \A i \in 1..Len(call.performCalls) :
            call.performCalls[i].fileSize = NegotiatedSize(call)
       /\ \A i \in 1..Len(call.tus) : call.tus[i].uploadSize = NegotiatedSize(call)

C35_Witness ==
  /\ call.file.t = "string"
  /\ call.stat = <<MaxSize>>
  /\ call.args.params.t = "object"
  /\ Get(call.args.params.v, "upload").t = "object"
  /\ Get(Get(call.args.params.v, "upload").v, "size") = Number(999)
  /\ call.tusState = "succeeded"
  /\ call.tus[1].uploadSize = Number(MaxSize)
  /\ NegotiatedSize(call) = Number(MaxSize)

\* The value is an error text or an Error that carries the prefix of a
\* failed negotiation.
HasInitiatePrefix(x) ==
  LET text == IF x.t = "string" THEN x.v
              ELSE IF x.t = "error" THEN x.v.message
              ELSE <<>>
  IN text # <<>> /\ text[1] = "Unable to initiate an upload. ["

\* C36: the prefix 'Unable to initiate an upload.' marks failures of the
\* negotiation only: once the negotiation has succeeded, nothing that carries
\* the prefix reaches errorCallback or rejects the promise, also when the
\* transfer fails to start.
C36_PrefixOnlyForNegotiation ==
  call.outcome = "ok" =>
    /\ \A i \in 1..Len(call.log) :
         call.log[i].fn = "cb3" => ~HasInitiatePrefix(call.log[i].args[1])
    /\ call.promise = "rejected" => ~HasInitiatePrefix(call.settled)

----
(***************************************************************************)
(* More properties of request().                                           *)
(***************************************************************************)
\* The call studied is request() without a callback.
NoCallbackCall ==
  /\ rq # <<>>
  /\ rq[1].via = "request"
  /\ rq[1].cb = "none"

\* The same call made in callback style.
InCallbackStyleOf(r) == [r EXCEPT !.cb = "returns", !.promise = "none"]

\* The promise of p settled as the callback of c was called: resolved with
\* {statusCode, body, headers} for callback(null, body, statusCode, headers),
\* rejected with the first argument of any other call.
SettledAsCalled(p, c) ==
  /\ Len(c.log) = 1
  /\ IF c.log[1][1] = NullValue
     THEN /\ p.promise = "resolved"
          /\ p.settled = Obj([statusCode |-> c.log[1][3], body |-> c.log[1][2],
                              headers |-> c.log[1][4]])
     ELSE /\ p.promise = "rejected"
          /\ p.settled = c.log[1][1]

----
(***************************************************************************)
(* streamingUpload(path, callback): a ticket is requested, a FileStreamer  *)
(* uploads the file to the ticket's upload link, and its ready handler     *)
(* sends the DELETE to the ticket's complete_uri.  The handlers it gives   *)
(* the streamer are the ones counted there: the k-th invocation of the     *)
(* ready handler sends DELETE k, and every invocation of the error handler *)
(* is callback(err).                                                       *)
(***************************************************************************)
\* What the callback of a request() is given when the request fails: the
\* 'error' of the request, a status of 400 or more, a body that is not JSON.
FailureArgs ==
  {<<Err(SocketError)>>,
   <<Err(Error(<<"Bad Request">>)), Str(<<"Bad Request">>), Number(FirstErrorStatus),
     ResponseHeaders>>,
   <<Str(<<"<html>">>), Str(<<"<html>">>), Number(200), ResponseHeaders>>}

\* What it is given when the DELETE succeeds.
DeletedArgs == <<NullValue, Obj(EmptyObject), Number(200), ResponseHeaders>>

\* streamingUpload(): the ticket is requested.
StreamingUpload ==
  /\ su.phase = "none"
  /\ su' = [su EXCEPT !.phase = "ticket"]
  /\ UNCHANGED <<svars, pvars, uvars, rvars>>

\* The ticket request fails: `if (err) return callback(err)`.
TicketFailed(args) ==
  /\ su.phase = "ticket"
  /\ su' = [su EXCEPT !.phase = "failed", !.log = Append(@, <<args[1]>>)]
  /\ UNCHANGED <<svars, pvars, uvars, rvars>>

\* The ticket arrives: new FileStreamer(path, ticket.upload_link_secure),
\* file.ready(...), file.error(callback), file.upload().
TicketCreated ==
  /\ su.phase = "ticket"
  /\ su' = [su EXCEPT !.phase = "streaming"]
  /\ fsPending = "idle"
  /\ fsPending' = "stat"
  /\ lastEvent' = Event("upload", 0, 0, NaN)
  /\ UNCHANGED <<variant, _file_size, _fd, openCalls, closeVars, reqs, readyCalls,
                 errorVars, uncaught, progress>>
  /\ UNCHANGED <<pvars, uvars, rvars>>

\* DELETE k, sent by the k-th invocation of the ready handler, delivers its
\* outcome to the callback.
DeleteAnswered(k, args) ==
  /\ k \in 1..readyCalls
  /\ k \notin su.answered
  /\ su' = [su EXCEPT !.answered = @ \cup {k}, !.log = Append(@, args)]
  /\ UNCHANGED <<svars, pvars, uvars, rvars>>

InitStreaming == SInit /\ PIdle /\ UIdle /\ RIdle /\ TIdle

NextStreaming ==
  \/ StreamingUpload
  \/ \E args \in FailureArgs : TicketFailed(args)
  \/ TicketCreated
  \/ StatFailed
  \/ \E size \in 0..MaxSize : StatDone(size)
  \/ OpenFailed
  \/ \E fd \in Fds : OpenDone(fd)
  \/ \E i \in 1..Len(reqs) :
       \/ \E n \in 1..MaxSize : FileData(i, n)
       \/ FileEnd(i)
       \/ FileError(i)
       \/ \E status \in StatusCodes :
            PutResponse(i, status, IF status > LastSuccessStatus
                                   THEN CHOOSE b \in Bodies : TRUE ELSE <<>>)
       \/ PutRequestError(i)
       \/ \E status \in StatusCodes :
            \E headers \in (IF status = ResumeIncomplete THEN RangeHeaders ELSE {Undefined}) :
              RangeResponse(i, status, headers,
                            IF status > LastSuccessStatus
                            THEN CHOOSE b \in Bodies : TRUE ELSE <<>>)
       \/ RangeRequestError(i)
  \/ CloseDone(NoError)
  \/ CloseDone(CloseError)
  \/ \E k \in 1..readyCalls, args \in FailureArgs \cup {DeletedArgs} : DeleteAnswered(k, args)

SpecStreaming == InitStreaming /\ [][NextStreaming]_vars

\* C38: streamingUpload sends the DELETE to complete_uri only in the step
\* in which the streamer reports the whole file confirmed, at most once, and
\* never when the ticket request or the transfer failed; the callback is
\* called once, with the outcome of the DELETE after a transfer that
\* succeeded, with the error otherwise.
C38_CompletesOnceAfterConfirmation ==
  [][/\ readyCalls' # readyCalls
          => /\ RangeAnswered(lastEvent')
             /\ GreaterOrEqual(lastEvent'.start, Num(_file_size))
     /\ readyCalls' <= 1
     /\ (su'.phase = "failed" \/ errorCalls' > 0) => readyCalls' = 0
     /\ Len(su'.log) + errorCalls' <= 1]_vars

----
\* C39: no call writes to the module-level request_defaults, and a request
\* carries under each name that has a default the value the caller supplied
\* when there is one, the default only when the caller supplied none.
C39_DefaultsKeptAndNotImposed ==
  [][/\ request_defaults' = request_defaults
     /\ request_defaults = RequestDefaults
     /\ \A options \in OptionsChoices, cb \in Callbacks :
          (CallRequest(options, cb) /\ options.path.t = "string") =>
            \A key \in DOMAIN RequestDefaults.headers :
              Get(rq'[1].sent[1].headers, key) =
                (IF key \in DOMAIN GivenHeaders(options)
                 THEN GivenHeaders(options)[key]
                 ELSE RequestDefaults.headers[key])]_vars

====
